---- MODULE Spec2Model ----
(***************************************************************************)
(* Model of the pump.fun smart token monitor:                              *)
(*   - ScamFilterEngine (scoring engine), as pure operators;               *)
(*   - processNewMigration and its in-memory history and stats;            *)
(*   - PumpPortalListener (upstream WebSocket with reconnect) and the      *)
(*     start()/stop() of TokenMonitorService.                              *)
(*                                                                         *)
(* Units.  JavaScript numbers are modelled by integers:                    *)
(*   - wall-clock times (Date.now(), migrationTimestamp, pairCreatedAt,    *)
(*     analyzedAt) are in minutes, 0 standing for an absent value;         *)
(*   - Transaction.timestamp is in seconds;                                *)
(*   - Holder.percentage and lpLockPercentage are whole percents (0-100);  *)
(*   - devHoldings (a decimal fraction in the source) is in basis points;  *)
(*   - avgFirstBuySize is in tenths of a SOL, Transaction.amount in        *)
(*     hundredths; timer delays are in milliseconds.                       *)
(* Ratios compared against decimal thresholds are compared by cross        *)
(* multiplication.  Flags are modelled by their constant prefix, without   *)
(* the interpolated numbers and without the emoji.                         *)
(***************************************************************************)
EXTENDS Integers, Sequences, FiniteSets, Bags, TLC

Min(a, b) == IF a < b THEN a ELSE b

Max(a, b) == IF a > b THEN a ELSE b

RECURSIVE SeqSum(_)
SeqSum(s) == IF s = <<>> THEN 0 ELSE Head(s) + SeqSum(Tail(s))

SeqContains(s, x) == \E i \in 1..Len(s) : s[i] = x

\* JavaScript `a || d` on numbers: 0 (and NaN, undefined) is falsy.
OrDefault(a, d) == IF a # 0 THEN a ELSE d

(***************************************************************************)
(* ScamFilterEngine                                                        *)
(***************************************************************************)

\* constructor(thresholds): every field is `thresholds?.x || default`.
\* Only the three fields set from the environment are inputs here.
Thresholds(cfg) ==
  [minScore |-> OrDefault(cfg.minScore, 60),
   maxDevHoldings |-> OrDefault(cfg.maxDevHoldings, 1500),
   minHolders |-> OrDefault(cfg.minHolders, 50),
   maxTopHolderConcentration |-> 30,
   minUniqueTradersRatio |-> 60]

NoPenalty == [penalty |-> 0, flags |-> <<>>]

IsBuy(tx) == tx.type = "BUY" \/ tx.type = "SWAP"

IsTrade(tx) == tx.type = "BUY" \/ tx.type = "SELL" \/ tx.type = "SWAP"

\* Keys of walletActivity in insertion order (Object.entries order).
RECURSIVE WalletOrder(_)
WalletOrder(txs) ==
  IF txs = <<>> THEN <<>>
  ELSE LET rest == WalletOrder(SubSeq(txs, 1, Len(txs) - 1))
           w == txs[Len(txs)].source
       IN IF SeqContains(rest, w) THEN rest ELSE Append(rest, w)

WalletActivity(txs, w) ==
  LET mine == SelectSeq(txs, LAMBDA tx : tx.source = w)
      ts == {mine[i].timestamp : i \in 1..Len(mine)}
  IN [buys |-> Len(SelectSeq(mine, IsBuy)),
      sells |-> Len(SelectSeq(mine, LAMBDA tx : tx.type = "SELL")),
      count |-> Len(mine),
      span |-> IF mine = <<>> THEN 0
               ELSE (CHOOSE t \in ts : \A u \in ts : u <= t)
                    - (CHOOSE t \in ts : \A u \in ts : t <= u)]

\* One wallet's contribution in checkWashTrading.  The mean of the sorted
\* timestamps' differences is span / (count - 1); it is compared to 30000 ms.
WashWallet(a) ==
  LET wash == a.buys > 5 /\ a.sells > 5
      bot == a.count > 1 /\ a.span < 30 * (a.count - 1) /\ a.buys + a.sells > 10
  IN [penalty |-> (IF wash THEN 12 ELSE 0) + (IF bot THEN 10 ELSE 0),
      flags |-> (IF wash THEN <<"Wash trading">> ELSE <<>>)
                \o (IF bot THEN <<"Bot activity">> ELSE <<>>)]

RECURSIVE WashFold(_, _)
WashFold(txs, ws) ==
  IF ws = <<>> THEN NoPenalty
  ELSE LET r == WashWallet(WalletActivity(txs, Head(ws)))
           rest == WashFold(txs, Tail(ws))
       IN [penalty |-> r.penalty + rest.penalty, flags |-> r.flags \o rest.flags]

checkWashTrading(transactions) ==
  IF Len(transactions) = 0 THEN NoPenalty
  ELSE LET r == WashFold(transactions, WalletOrder(transactions))
       IN [penalty |-> Min(r.penalty, 20), flags |-> r.flags]

HolderCountFlags(holderCount, th) ==
  IF holderCount < th.minHolders
  THEN [penalty |-> 15, flags |-> <<"Low holders">>]
  ELSE IF holderCount < th.minHolders * 2
  THEN [penalty |-> 8, flags |-> <<"Moderate holders">>]
  ELSE NoPenalty

WhaleFlags(holders) ==
  LET largest == IF Len(holders) > 0 THEN holders[1].percentage ELSE 0
  IN IF largest > 30 THEN [penalty |-> 10, flags |-> <<"Mega whale">>]
     ELSE IF largest > 20 THEN [penalty |-> 6, flags |-> <<"Whale">>]
     ELSE NoPenalty

ConcentrationFlags(holders, th) ==
  LET pct(n) == SeqSum([i \in 1..n |-> holders[i].percentage])
  IN IF Len(holders) >= 10
     THEN IF pct(10) > 50
          THEN [penalty |-> 15, flags |-> <<"Very high concentration">>]
          ELSE IF pct(10) > th.maxTopHolderConcentration
          THEN [penalty |-> 10, flags |-> <<"High concentration">>]
          ELSE NoPenalty
     ELSE IF Len(holders) > 0 /\ pct(Len(holders)) > 80
          THEN [penalty |-> 15, flags |-> <<"Very high concentration">>]
          ELSE NoPenalty

\* `actualHolderCount || holders.length`: only 0 falls back to the list.
EffectiveHolderCount(holders, actualHolderCount) ==
  OrDefault(actualHolderCount, Len(holders))

checkHolderDistribution(holders, actualHolderCount, th) ==
  LET c == HolderCountFlags(EffectiveHolderCount(holders, actualHolderCount), th)
      k == ConcentrationFlags(holders, th)
      w == IF Len(holders) > 0 THEN WhaleFlags(holders) ELSE NoPenalty
  IN [penalty |-> Min(c.penalty + k.penalty + w.penalty, 25),
      flags |-> c.flags \o k.flags \o w.flags]

\* devPercentage = devHoldingsAmount / totalSupply, devHoldingsAmount being
\* the devHoldings fraction (basis points / 10000) and totalSupply the sum of
\* the listed holders' amounts.
checkDeveloperHoldings(holders, devWallet, devHoldingsAmount, th) ==
  LET totalSupply == SeqSum([i \in 1..Len(holders) |-> holders[i].amount])
      devIdx == {i \in 1..Len(holders) : holders[i].address = devWallet}
      pen ==
        IF totalSupply > 0 /\ devHoldingsAmount > 0
        THEN IF devHoldingsAmount * 100 > 25 * 10000 * totalSupply
             THEN [penalty |-> 15, flags |-> <<"Very high dev holdings">>]
             ELSE IF devHoldingsAmount > th.maxDevHoldings * totalSupply
             THEN [penalty |-> 10, flags |-> <<"High dev holdings">>]
             ELSE IF devHoldingsAmount * 100 > 5 * 10000 * totalSupply
             THEN [penalty |-> 5, flags |-> <<"Moderate dev holdings">>]
             ELSE NoPenalty
        ELSE IF devWallet # "" /\ Len(holders) > 0 /\ devIdx # {} /\ totalSupply > 0
        THEN LET h == holders[CHOOSE i \in devIdx : \A j \in devIdx : i <= j]
             IN IF h.amount * 10000 > th.maxDevHoldings * totalSupply
                THEN [penalty |-> 10, flags |-> <<"High dev holdings">>]
                ELSE NoPenalty
        ELSE NoPenalty
  IN [penalty |-> Min(pen.penalty, 15), flags |-> pen.flags]

checkVolumeManipulation(transactions, th) ==
  IF Len(transactions) = 0 THEN NoPenalty
  ELSE LET uniqueTraders == Cardinality({transactions[i].source : i \in 1..Len(transactions)})
           totalTxs == Len(transactions)
           d == IF uniqueTraders * 100 < 30 * totalTxs
                THEN [penalty |-> 15, flags |-> <<"Low trader diversity">>]
                ELSE IF uniqueTraders * 100 < th.minUniqueTradersRatio * totalTxs
                THEN [penalty |-> 8, flags |-> <<"Volume manipulation risk">>]
                ELSE NoPenalty
           buyTransactions == SelectSeq(transactions, IsBuy)
           microBuys == Len(SelectSeq(buyTransactions, LAMBDA tx : tx.amount < 1))
           m == IF Len(buyTransactions) > 0 /\ microBuys * 10 > Len(buyTransactions) * 4
                THEN [penalty |-> 10, flags |-> <<"Micro-buys">>]
                ELSE NoPenalty
       IN [penalty |-> Min(d.penalty + m.penalty, 20), flags |-> d.flags \o m.flags]

\* Stable insertion sort by timestamp ([...transactions].sort).
RECURSIVE SortByTime(_)
SortByTime(txs) ==
  IF txs = <<>> THEN <<>>
  ELSE LET rest == SortByTime(SubSeq(txs, 1, Len(txs) - 1))
           x == txs[Len(txs)]
           before == SelectSeq(rest, LAMBDA tx : tx.timestamp <= x.timestamp)
           after == SelectSeq(rest, LAMBDA tx : tx.timestamp > x.timestamp)
       IN before \o <<x>> \o after

checkAirdropScheme(transactions) ==
  IF Len(transactions) = 0 THEN NoPenalty
  ELSE LET sortedTxs == SortByTime(transactions)
           trades == {i \in 1..Len(sortedTxs) : IsTrade(sortedTxs[i])}
           \* findIndex is 0-based; firstTradeIndex > 0 means a trade exists
           \* and it is not the first transaction.
           first == IF trades = {} THEN 0
                    ELSE CHOOSE i \in trades : \A j \in trades : i <= j
           preTradeTransfers ==
             IF first > 1
             THEN SelectSeq(SubSeq(sortedTxs, 1, first - 1), LAMBDA tx : tx.type = "TRANSFER")
             ELSE <<>>
           dumped(transfer) ==
             \E i \in 1..Len(sortedTxs) :
                /\ sortedTxs[i].source = transfer.toUserAccount
                /\ sortedTxs[i].type = "SELL"
                /\ sortedTxs[i].timestamp > transfer.timestamp
           dumpCount == Len(SelectSeq(preTradeTransfers, dumped))
       IN IF dumpCount > 5 THEN [penalty |-> 15, flags |-> <<"Airdrop dump">>]
          ELSE IF dumpCount > 2 THEN [penalty |-> 8, flags |-> <<"Minor airdrop dump">>]
          ELSE NoPenalty

checkSocialSignals(metadata) ==
  LET s == IF ~metadata.twitter /\ ~metadata.telegram
           THEN [penalty |-> 6, flags |-> <<"No social links">>]
           ELSE IF ~metadata.twitter
           THEN [penalty |-> 3, flags |-> <<"No Twitter">>]
           ELSE NoPenalty
      w == IF ~metadata.website THEN [penalty |-> 2, flags |-> <<"No website">>] ELSE NoPenalty
      g == IF metadata.genericDescription
           THEN [penalty |-> 3, flags |-> <<"Generic description">>] ELSE NoPenalty
      c == IF metadata.copycatName /\ ~metadata.twitter
           THEN [penalty |-> 4, flags |-> <<"Possible impersonation">>] ELSE NoPenalty
  IN [penalty |-> Min(s.penalty + w.penalty + g.penalty + c.penalty, 10),
      flags |-> s.flags \o w.flags \o g.flags \o c.flags]

checkTokenAge(priceData, migrationTimestamp, now) ==
  LET createdAt == OrDefault(priceData.pairCreatedAt, migrationTimestamp)
      ageMin == now - createdAt
  IN IF ageMin < 30 THEN [penalty |-> 15, flags |-> <<"Very new token">>]
     ELSE IF ageMin < 60 THEN [penalty |-> 10, flags |-> <<"New token">>]
     ELSE IF ageMin < 360 THEN [penalty |-> 5, flags |-> <<"Recently launched">>]
     ELSE NoPenalty

\* getTokenAgeHours: pairCreatedAt || migrationTimestamp || Date.now(), in
\* minutes; migrationTimestamp = 0 when the caller passes none.
getTokenAgeHours(priceData, migrationTimestamp, now) ==
  now - OrDefault(OrDefault(priceData.pairCreatedAt, migrationTimestamp), now)

Abs(x) == IF x < 0 THEN -x ELSE x

checkBuyPressure(priceData) ==
  LET total24h == priceData.buys24h + priceData.sells24h
      total1h == priceData.buys1h + priceData.sells1h
      total5m == priceData.buys5m + priceData.sells5m
      p == IF total24h > 10
           THEN IF priceData.buys24h * 100 > 90 * total24h
                THEN [penalty |-> 10, flags |-> <<"Extreme buy pressure">>]
                ELSE IF priceData.buys24h * 100 > 80 * total24h
                THEN [penalty |-> 5, flags |-> <<"High buy pressure">>]
                ELSE IF priceData.buys24h * 100 < 20 * total24h
                THEN [penalty |-> 15, flags |-> <<"Dump in progress">>]
                ELSE NoPenalty
           ELSE NoPenalty
      \* fiveMinRatio = total5m / (total1h / 12) > 5
      s == IF total5m > 20 /\ total1h > 0 /\ total5m * 12 > 5 * total1h
           THEN [penalty |-> 8, flags |-> <<"Volume spike">>]
           ELSE NoPenalty
      v == IF Abs(priceData.priceChange5m) > 30
           THEN [penalty |-> 10, flags |-> <<"Extreme 5m volatility">>]
           ELSE IF Abs(priceData.priceChange1h) > 50
           THEN [penalty |-> 8, flags |-> <<"High 1h volatility">>]
           ELSE NoPenalty
  IN [penalty |-> Min(p.penalty + s.penalty + v.penalty, 15),
      flags |-> p.flags \o s.flags \o v.flags]

checkLiquidityHealth(priceData) ==
  LET r == IF priceData.marketCap > 0
           THEN IF priceData.liquidity * 100 < 2 * priceData.marketCap
                THEN [penalty |-> 20, flags |-> <<"Dangerously low liquidity">>]
                ELSE IF priceData.liquidity * 100 < 5 * priceData.marketCap
                THEN [penalty |-> 12, flags |-> <<"Low liquidity ratio">>]
                ELSE IF priceData.liquidity * 100 < 10 * priceData.marketCap
                THEN [penalty |-> 5, flags |-> <<"Moderate liquidity">>]
                ELSE NoPenalty
           ELSE NoPenalty
      v == IF priceData.liquidity > 0
           THEN IF priceData.volume24h > 20 * priceData.liquidity
                THEN [penalty |-> 10, flags |-> <<"Suspicious volume/liquidity">>]
                ELSE IF priceData.volume24h > 10 * priceData.liquidity
                THEN [penalty |-> 5, flags |-> <<"High volume/liquidity">>]
                ELSE NoPenalty
           ELSE NoPenalty
      a == IF priceData.liquidity < 5000
           THEN [penalty |-> 10, flags |-> <<"Very low liquidity">>]
           ELSE IF priceData.liquidity < 10000
           THEN [penalty |-> 5, flags |-> <<"Low liquidity">>]
           ELSE NoPenalty
  IN [penalty |-> Min(r.penalty + v.penalty + a.penalty, 20),
      flags |-> r.flags \o v.flags \o a.flags]

\* Optional inputs (security, launchAnalysis, walletFunding, creatorHistory)
\* carry a `present` field; absent stands for undefined.
checkSecurity(security) ==
  IF ~security.present
  THEN [penalty |-> 5, flags |-> <<"Security data unavailable">>]
  ELSE LET m == IF ~security.mintAuthorityRevoked
                THEN [penalty |-> 15, flags |-> <<"Mint authority NOT revoked">>]
                ELSE NoPenalty
           f == IF ~security.freezeAuthorityRevoked
                THEN [penalty |-> 10, flags |-> <<"Freeze authority exists">>]
                ELSE NoPenalty
           l == IF ~security.lpLocked /\ security.lpLockPercentage < 80
                THEN [penalty |-> 15, flags |-> <<"LP not locked">>]
                ELSE IF security.lpLockPercentage < 50
                THEN [penalty |-> 8, flags |-> <<"Low LP lock">>]
                ELSE NoPenalty
           c == IF security.topHoldersAreContracts
                THEN [penalty |-> 10, flags |-> <<"Top holders are contracts">>]
                ELSE NoPenalty
           r == IF security.isRugpullRisk
                THEN [penalty |-> 5, flags |-> <<"High rugpull risk">>]
                ELSE NoPenalty
       IN [penalty |-> Min(m.penalty + f.penalty + l.penalty + c.penalty + r.penalty, 25),
           flags |-> m.flags \o f.flags \o l.flags \o c.flags \o r.flags]

checkSnipers(launchAnalysis) ==
  IF ~launchAnalysis.present THEN NoPenalty
  ELSE LET b == IF launchAnalysis.bundledBuys > 3
                THEN [penalty |-> 15, flags |-> <<"Bundled launch">>]
                ELSE IF launchAnalysis.bundledBuys > 1
                THEN [penalty |-> 8, flags |-> <<"Bundled buys detected">>]
                ELSE NoPenalty
           s == IF launchAnalysis.sniperCount > 20
                THEN [penalty |-> 12, flags |-> <<"Heavy sniper activity">>]
                ELSE IF launchAnalysis.sniperCount > 10
                THEN [penalty |-> 6, flags |-> <<"Sniper activity">>]
                ELSE NoPenalty
           a == IF launchAnalysis.avgFirstBuySize > 50
                THEN [penalty |-> 10, flags |-> <<"Large early buys">>]
                ELSE IF launchAnalysis.avgFirstBuySize > 20
                THEN [penalty |-> 5, flags |-> <<"Significant early buys">>]
                ELSE NoPenalty
           c == IF launchAnalysis.creatorBoughtBack
                THEN [penalty |-> 8, flags |-> <<"Creator bought tokens after launch">>]
                ELSE NoPenalty
       IN [penalty |-> Min(b.penalty + s.penalty + a.penalty + c.penalty, 20),
           flags |-> b.flags \o s.flags \o a.flags \o c.flags]

checkWalletFunding(walletFunding) ==
  IF ~walletFunding.present THEN NoPenalty
  ELSE LET c == IF walletFunding.clusteredWallets >= 5
                THEN [penalty |-> 20, flags |-> <<"Coordinated buying">>]
                ELSE IF walletFunding.clusteredWallets >= 3
                THEN [penalty |-> 12, flags |-> <<"Wallet clustering">>]
                ELSE IF walletFunding.clusteredWallets >= 2
                THEN [penalty |-> 5, flags |-> <<"Minor wallet clustering detected">>]
                ELSE NoPenalty
           f == IF walletFunding.freshWalletBuyers >= 5
                THEN [penalty |-> 15, flags |-> <<"Many fresh wallets">>]
                ELSE IF walletFunding.freshWalletBuyers >= 3
                THEN [penalty |-> 8, flags |-> <<"Fresh wallet activity">>]
                ELSE NoPenalty
           s == IF walletFunding.suspiciousFundingPattern
                THEN [penalty |-> 5, flags |-> <<"Suspicious funding pattern detected">>]
                ELSE NoPenalty
       IN [penalty |-> Min(c.penalty + f.penalty + s.penalty, 25),
           flags |-> c.flags \o f.flags \o s.flags]

checkTradeVelocity(priceData, holderCount) ==
  IF holderCount <= 0 \/ priceData.trades24h <= 0 THEN NoPenalty
  ELSE LET p == IF priceData.trades24h > 20 * holderCount
                THEN [penalty |-> 15, flags |-> <<"Extreme trade velocity">>]
                ELSE IF priceData.trades24h > 10 * holderCount
                THEN [penalty |-> 10, flags |-> <<"High trade velocity">>]
                ELSE IF priceData.trades24h > 5 * holderCount
                THEN [penalty |-> 5, flags |-> <<"Elevated trade velocity">>]
                ELSE NoPenalty
       IN [penalty |-> Min(p.penalty, 15), flags |-> p.flags]

checkCreatorHistory(creatorHistory) ==
  IF ~creatorHistory.present THEN NoPenalty
  ELSE LET s == IF creatorHistory.isSerialCreator
                THEN IF creatorHistory.recentCount >= 10
                     THEN [penalty |-> 30, flags |-> <<"SERIAL SCAMMER">>]
                     ELSE IF creatorHistory.recentCount >= 5
                     THEN [penalty |-> 20, flags |-> <<"High-volume creator">>]
                     ELSE IF creatorHistory.recentCount >= 3
                     THEN [penalty |-> 12, flags |-> <<"Serial creator">>]
                     ELSE NoPenalty
                ELSE NoPenalty
           t == IF creatorHistory.tokenCount >= 20
                THEN [penalty |-> 15, flags |-> <<"Prolific creator">>]
                ELSE IF creatorHistory.tokenCount >= 10
                THEN [penalty |-> 8, flags |-> <<"Multiple tokens">>]
                ELSE IF creatorHistory.tokenCount >= 5
                THEN [penalty |-> 4, flags |-> <<"previous tokens">>]
                ELSE NoPenalty
           r == IF creatorHistory.ruggedTokens >= 3
                THEN [penalty |-> 15, flags |-> <<"History of failed tokens">>]
                ELSE NoPenalty
       IN [penalty |-> Min(s.penalty + t.penalty + r.penalty, 35),
           flags |-> s.flags \o t.flags \o r.flags]

\* calculatePositiveSignals; the ratio is 0.5 unless there are more than 10
\* trades, and the total bonus is capped at 25.
calculatePositiveSignals(td, now) ==
  LET ageMin == getTokenAgeHours(td.priceData, td.migrationTimestamp, now)
      buys == td.priceData.buys24h
      sells == td.priceData.sells24h
      totalTrades == buys + sells
      balanced == IF totalTrades > 10
                  THEN buys * 100 >= 40 * totalTrades /\ buys * 100 <= 60 * totalTrades
                  ELSE TRUE
      a1 == IF ageMin >= 24 * 60 THEN [bonus |-> 5, signals |-> <<"Token age > 24 hours">>]
            ELSE [bonus |-> 0, signals |-> <<>>]
      a2 == IF ageMin >= 72 * 60 THEN [bonus |-> 5, signals |-> <<"Token age > 3 days">>]
            ELSE [bonus |-> 0, signals |-> <<>>]
      h == IF td.holderCount # 0 /\ td.holderCount >= 500
           THEN [bonus |-> 5, signals |-> <<"Strong holder base (500+)">>]
           ELSE IF td.holderCount # 0 /\ td.holderCount >= 200
           THEN [bonus |-> 3, signals |-> <<"Good holder count (200+)">>]
           ELSE [bonus |-> 0, signals |-> <<>>]
      b == IF balanced THEN [bonus |-> 5, signals |-> <<"Balanced trading activity">>]
           ELSE [bonus |-> 0, signals |-> <<>>]
      l == IF td.priceData.marketCap > 0 /\ td.priceData.liquidity * 10 >= td.priceData.marketCap
           THEN [bonus |-> 5, signals |-> <<"Healthy liquidity ratio">>]
           ELSE [bonus |-> 0, signals |-> <<>>]
      so == IF td.metadata.twitter /\ td.metadata.website
            THEN [bonus |-> 3, signals |-> <<"Has Twitter and website">>]
            ELSE [bonus |-> 0, signals |-> <<>>]
      se == IF td.security.present /\ td.security.mintAuthorityRevoked
               /\ td.security.freezeAuthorityRevoked /\ td.security.lpLocked
            THEN [bonus |-> 5, signals |-> <<"Security fully verified">>]
            ELSE [bonus |-> 0, signals |-> <<>>]
  IN [bonus |-> Min(a1.bonus + a2.bonus + h.bonus + b.bonus + l.bonus + so.bonus + se.bonus, 25),
      signals |-> a1.signals \o a2.signals \o h.signals \o b.signals
                  \o l.signals \o so.signals \o se.signals]

\* detectCompositeRisks.  The age comes from getTokenAgeHours(priceData)
\* called without a migration timestamp.
detectCompositeRisks(td, holderResult, tradeVelocityResult, now) ==
  LET pd == td.priceData
      buys == pd.buys24h
      sells == pd.sells24h
      totalTrades == buys + sells
      ageMin == getTokenAgeHours(pd, 0, now)
      hasFlag(f) == SeqContains(holderResult.flags, f)
  IN [rugInProgress |->
        /\ (hasFlag("Very high concentration") \/ hasFlag("Mega whale"))
        /\ totalTrades > 0 /\ sells * 100 > 70 * totalTrades
        /\ ageMin < 12 * 60,
      pumpSetup |->
        /\ totalTrades > 0 /\ buys * 100 > 85 * totalTrades
        /\ td.holderCount < 100
        /\ ageMin < 6 * 60
        /\ pd.trades24h > 100,
      washTrading |->
        /\ td.holderCount > 0 /\ pd.trades24h > 10 * td.holderCount
        /\ tradeVelocityResult.penalty > 5,
      coordinatedDump |->
        /\ totalTrades > 0 /\ sells * 100 > 80 * totalTrades
        /\ pd.trades24h > 50
        /\ ageMin < 24 * 60,
      \* f.includes('whale') is case sensitive: of the holder flags only
      \* "Mega whale: ..." contains it.
      insiderAccumulation |->
        /\ td.launchAnalysis.present /\ td.launchAnalysis.bundledBuys > 2
        /\ td.walletFunding.present /\ td.walletFunding.clusteredWallets >= 2
        /\ hasFlag("Mega whale")]

CompositeFlags(cr) ==
  (IF cr.rugInProgress THEN <<"RUG IN PROGRESS">> ELSE <<>>)
  \o (IF cr.pumpSetup THEN <<"PUMP SETUP">> ELSE <<>>)
  \o (IF cr.washTrading THEN <<"WASH TRADING">> ELSE <<>>)
  \o (IF cr.coordinatedDump THEN <<"COORDINATED DUMP">> ELSE <<>>)
  \o (IF cr.insiderAccumulation THEN <<"INSIDER ACTIVITY">> ELSE <<>>)

CompositePenalty(cr) ==
  (IF cr.rugInProgress THEN 20 ELSE 0)
  + (IF cr.pumpSetup THEN 10 ELSE 0)
  + (IF cr.washTrading THEN 10 ELSE 0)
  + (IF cr.coordinatedDump THEN 15 ELSE 0)
  + (IF cr.insiderAccumulation THEN 15 ELSE 0)

\* Math.max(0, Math.min(100, x))
Clamp(x) == Max(0, Min(100, x))

riskPriority ==
  <<"RUG IN PROGRESS", "COORDINATED DUMP", "INSIDER ACTIVITY", "PUMP SETUP",
    "Dump in progress", "Mega whale", "Mint authority NOT revoked", "LP not locked",
    "Bundled launch", "Very high concentration", "Dangerously low liquidity",
    "Heavy sniper activity", "Low holders", "No social links">>

calculateDangerScore(safetyScore, flags, cr, td) ==
  LET d0 == 100 - Clamp(safetyScore)
      d1 == IF cr.rugInProgress THEN Min(100, d0 + 20) ELSE d0
      d2 == IF cr.coordinatedDump THEN Min(100, d1 + 15) ELSE d1
      d3 == IF cr.insiderAccumulation THEN Min(100, d2 + 10) ELSE d2
      d4 == IF cr.pumpSetup THEN Min(100, d3 + 10) ELSE d3
      danger == IF cr.washTrading THEN Min(100, d4 + 5) ELSE d4
      matching == SelectSeq(riskPriority, LAMBDA pr : SeqContains(flags, pr))
  IN [overall |-> danger,
      confidence |->
        IF td.priceData.trades24h = 0 \/ ~td.security.present THEN "low"
        ELSE IF td.holderCount = 0 \/ td.holderCount < 0 THEN "medium"
        ELSE "high",
      category |->
        IF danger >= 80 THEN "EXTREME"
        ELSE IF danger >= 60 THEN "HIGH_RISK"
        ELSE IF danger >= 40 THEN "MODERATE"
        ELSE IF danger >= 20 THEN "LOW_RISK"
        ELSE "SAFE",
      primaryRisks |-> SubSeq(matching, 1, Min(3, Len(matching)))]

\* The score left unclamped.
FinalScoreUnclamped(score) == score

\* finalScore: the accumulated score (base 100, minus the fourteen checks'
\* penalties, plus the bonus, minus the composite deductions), clamped.
FinalScore(score) == Clamp(score)

analyzeToken(td, th, now) ==
  LET washTradingResult == checkWashTrading(td.transactions)
      holderResult == checkHolderDistribution(td.holders, td.holderCount, th)
      devResult == checkDeveloperHoldings(td.holders, td.metadata.creator, td.devHoldings, th)
      volumeResult == checkVolumeManipulation(td.transactions, th)
      airdropResult == checkAirdropScheme(td.transactions)
      socialResult == checkSocialSignals(td.metadata)
      tokenAgeResult == checkTokenAge(td.priceData, td.migrationTimestamp, now)
      buyPressureResult == checkBuyPressure(td.priceData)
      liquidityResult == checkLiquidityHealth(td.priceData)
      securityResult == checkSecurity(td.security)
      sniperResult == checkSnipers(td.launchAnalysis)
      walletFundingResult == checkWalletFunding(td.walletFunding)
      tradeVelocityResult == checkTradeVelocity(td.priceData, td.holderCount)
      creatorHistoryResult == checkCreatorHistory(td.creatorHistory)
      results == <<washTradingResult, holderResult, devResult, volumeResult,
                   airdropResult, socialResult, tokenAgeResult, buyPressureResult,
                   liquidityResult, securityResult, sniperResult, walletFundingResult,
                   tradeVelocityResult, creatorHistoryResult>>
      RECURSIVE AllFlags(_)
      AllFlags(rs) == IF rs = <<>> THEN <<>> ELSE Head(rs).flags \o AllFlags(Tail(rs))
      bonusResult == calculatePositiveSignals(td, now)
      compositeRisks == detectCompositeRisks(td, holderResult, tradeVelocityResult, now)
      score == 100 - SeqSum([i \in 1..Len(results) |-> results[i].penalty])
                   + bonusResult.bonus - CompositePenalty(compositeRisks)
      flags == AllFlags(results) \o CompositeFlags(compositeRisks)
      finalScore == FinalScore(score)
  IN [passed |-> finalScore >= th.minScore,
      score |-> finalScore,
      flags |-> flags,
      breakdown |-> [washTrading |-> washTradingResult, holders |-> holderResult,
                     developer |-> devResult, volume |-> volumeResult,
                     airdrops |-> airdropResult, social |-> socialResult,
                     tokenAge |-> tokenAgeResult, buyPressure |-> buyPressureResult,
                     liquidity |-> liquidityResult, security |-> securityResult,
                     snipers |-> sniperResult],
      dangerScore |-> calculateDangerScore(score, flags, compositeRisks, td),
      compositeRisks |-> compositeRisks,
      positiveSignals |-> bonusResult.signals]

(***************************************************************************)
(* State                                                                   *)
(***************************************************************************)
VARIABLES
  \* scoring engine under test: configuration, input record, clock, result
  enginePc, engineCfg, engineInput, engineNow, engineOut,
  \* the result of the previous scoring of the same input
  enginePrev,
  \* token-processor.service.ts: module state and in-flight enrichments
  thresholds, processedTokens, stats, tasks, now,
  \* token-monitor.service.ts
  isRunning, initialLoadComplete, backfill, startPending,
  \* pumpportal-listener.service.ts
  \* the socket this.ws refers to, the sockets it no longer refers to whose
  \* handlers are still attached, and the pending setTimeout callbacks in the
  \* order they were scheduled
  ws, orphanConnecting, orphanOpen, orphanClosing, isConnecting,
  reconnectAttempts, timers, pingInterval, activePings,
  \* history variables of the listener: reconnect attempts begun since the
  \* last successful open (saturating), the delay of the reconnect timer
  \* whose expiry has just begun an attempt (0 otherwise), and whether stop()
  \* has ever been called
  attemptsSinceOpen, lastWait, stopped,
  \* the monitor's event bus: backfills in progress, 'migration' handlers
  \* registered on the listener, the subscribers of /api/stream, and history
  \* variables counting the loadingHistory, historyLoaded and
  \* tokenPassed/tokenFiltered emissions and recording a promise rejection
  \* that nothing handled
  loading, migrationHandlers, subs, emittedLoading, emittedLoaded, emittedTokens,
  unhandledRejection,
  \* sol-price.service.ts: the module's cache, the wall clock (ms), the
  \* getSolPrice calls in progress, and history variables: the time at which
  \* the cached price was received from its source, and the last result
  \* returned by getSolPrice or getCachedSolPrice
  cachedPrice, cacheTimestamp, priceClock, priceCalls, obtainedAt, lastPrice,
  \* moralis.service.ts: the number of configured credentials (keys.length),
  \* the shared index, and the fetchGraduatedTokens calls
  keyCount, currentKeyIndex, fetches,
  \* the last MigrationEvent built from an upstream frame or a backfill item
  lastEvent,
  \* history variables: an exception of a listener of the Migration Source
  \* was caught by the handler that called it, or escaped from it; and the
  \* tokenPassed and tokenFiltered events emitted by the monitor
  listenerCaught, listenerEscaped, announcements

evars == <<enginePc, engineCfg, engineInput, engineNow, engineOut, enginePrev>>

pvars == <<thresholds, processedTokens, stats, tasks, now,
           initialLoadComplete, backfill>>

lvars == <<isRunning, startPending, ws, orphanConnecting, orphanOpen, orphanClosing,
           isConnecting, reconnectAttempts, timers, pingInterval, activePings,
           attemptsSinceOpen, lastWait, stopped>>

bvars == <<loading, migrationHandlers, subs, emittedLoading, emittedLoaded,
           emittedTokens, unhandledRejection>>

svars == <<cachedPrice, cacheTimestamp, priceClock, priceCalls, obtainedAt, lastPrice>>

kvars == <<keyCount, currentKeyIndex, fetches>>

hvars == <<lastEvent>>

gvars == <<listenerCaught, listenerEscaped, announcements>>

xvars == <<svars, kvars, hvars, gvars>>

ovars == <<bvars, xvars>>

vars == <<evars, pvars, lvars, ovars>>

(***************************************************************************)
(* Inputs of the scoring engine                                            *)
(***************************************************************************)

Tx(source, type, timestamp, amount, to) ==
  [source |-> source, type |-> type, timestamp |-> timestamp, amount |-> amount,
   toUserAccount |-> to]

\* One wallet alternating sells and buys one second apart.
WashTxs == [i \in 1..12 |-> Tx("w1", IF i % 2 = 0 THEN "BUY" ELSE "SELL", i, 100, "")]

\* Three transfers before the first trade, whose recipients sell afterwards.
AirdropTxs ==
  <<Tx("dev", "TRANSFER", 1, 100, "a"), Tx("dev", "TRANSFER", 2, 100, "b"),
    Tx("dev", "TRANSFER", 3, 100, "c"), Tx("x", "BUY", 100, 0, ""),
    Tx("a", "SELL", 200, 100, ""), Tx("b", "SELL", 300, 100, ""),
    Tx("c", "SELL", 400, 100, ""), Tx("y", "BUY", 500, 100, "")>>

TxSamples == {<<>>, WashTxs, AirdropTxs}

HolderRec(address, amount, percentage) ==
  [address |-> address, amount |-> amount, percentage |-> percentage]

ConcentratedHolders ==
  [i \in 1..10 |-> IF i = 1 THEN HolderRec("dev", 350, 35) ELSE HolderRec("h", 50, 5)]

FewHolders == <<HolderRec("h1", 1, 25), HolderRec("dev", 1, 5), HolderRec("h3", 1, 5)>>

HolderSamples == {<<>>, ConcentratedHolders, FewHolders}

HolderCountSamples == {-1, 40, 600}

Price(buys, sells, trades, liquidity, marketCap, volume, pc5m) ==
  [buys24h |-> buys, sells24h |-> sells, trades24h |-> trades, liquidity |-> liquidity,
   marketCap |-> marketCap, volume24h |-> volume, pairCreatedAt |-> 0,
   buys1h |-> 0, sells1h |-> 0, buys5m |-> 0, sells5m |-> 0,
   priceChange5m |-> pc5m, priceChange1h |-> 0]

PriceSamples ==
  {Price(0, 0, 0, 0, 0, 0, 0),
   Price(480, 520, 1000, 80000, 500000, 100000, 0),
   Price(40, 260, 300, 1200, 150000, 50000, 0),
   Price(900, 120, 1020, 8000, 40000, 200000, 40)}

Security(present, mint, freeze, lp, pct, contracts, rug) ==
  [present |-> present, mintAuthorityRevoked |-> mint, freezeAuthorityRevoked |-> freeze,
   lpLocked |-> lp, lpLockPercentage |-> pct, topHoldersAreContracts |-> contracts,
   isRugpullRisk |-> rug]

NoSecurity == Security(FALSE, FALSE, FALSE, FALSE, 0, FALSE, FALSE)

SecureDefaults == Security(TRUE, TRUE, TRUE, TRUE, 100, FALSE, FALSE)

SecuritySamples == {NoSecurity, SecureDefaults, Security(TRUE, FALSE, FALSE, FALSE, 0, TRUE, TRUE)}

Launch(present, bundled, snipers, avg, boughtBack) ==
  [present |-> present, bundledBuys |-> bundled, sniperCount |-> snipers,
   avgFirstBuySize |-> avg, creatorBoughtBack |-> boughtBack]

NoLaunch == Launch(FALSE, 0, 0, 0, FALSE)

LaunchDefaults == Launch(TRUE, 0, 0, 0, FALSE)

Funding(present, clustered, fresh, suspicious) ==
  [present |-> present, clusteredWallets |-> clustered, freshWalletBuyers |-> fresh,
   suspiciousFundingPattern |-> suspicious]

NoFunding == Funding(FALSE, 0, 0, FALSE)

Creator(present, serial, recent, total, rugged) ==
  [present |-> present, isSerialCreator |-> serial, recentCount |-> recent,
   tokenCount |-> total, ruggedTokens |-> rugged]

NoCreatorHistory == Creator(FALSE, FALSE, 0, 0, 0)

\* launch analysis, wallet funding and creator history, taken together
ExtraSamples ==
  {[launchAnalysis |-> NoLaunch, walletFunding |-> NoFunding,
    creatorHistory |-> NoCreatorHistory],
   [launchAnalysis |-> LaunchDefaults, walletFunding |-> Funding(TRUE, 2, 3, FALSE),
    creatorHistory |-> Creator(TRUE, TRUE, 3, 5, 0)],
   [launchAnalysis |-> Launch(TRUE, 5, 25, 60, TRUE), walletFunding |-> Funding(TRUE, 5, 5, TRUE),
    creatorHistory |-> Creator(TRUE, TRUE, 12, 35, 10)]}

Metadata(creator, social) ==
  [creator |-> creator, twitter |-> social, telegram |-> social, website |-> social,
   genericDescription |-> ~social, copycatName |-> ~social]

MetadataSamples == {Metadata("dev", TRUE), Metadata("dev", FALSE)}

\* Date.now() at the time of scoring, and the migration timestamps tried:
\* 10 minutes, 2 hours and 4 days before it.
EngineClock == 10000

\* Minutes between the first and the second scoring of a record.
RescoreDelay == 60

TimestampSamples == {EngineClock - 10, EngineClock - 120, EngineClock - 5760}

\* MIN_SCORE_THRESHOLD values tried; 0 in the other fields selects the default.
\* the environment sets none of the thresholds
DefaultConfig == [minScore |-> 0, maxDevHoldings |-> 0, minHolders |-> 0]

ConfigSamples == {[minScore |-> m, maxDevHoldings |-> 0, minHolders |-> 0] : m \in {0, 60, 101}}

TokenDataSamples ==
  {[transactions |-> tx, holders |-> h, holderCount |-> hc, priceData |-> pd,
    migrationTimestamp |-> ts, security |-> sec, launchAnalysis |-> ex.launchAnalysis,
    walletFunding |-> ex.walletFunding, creatorHistory |-> ex.creatorHistory,
    metadata |-> md, devHoldings |-> IF h = <<>> THEN 0 ELSE 3000] :
     tx \in TxSamples, h \in HolderSamples, hc \in HolderCountSamples, pd \in PriceSamples,
     ts \in TimestampSamples, sec \in SecuritySamples, ex \in ExtraSamples,
     md \in MetadataSamples}

NoInput == [holderCount |-> 0]

NoAnalysis == [score |-> 0]

(***************************************************************************)
(* Initial states                                                          *)
(***************************************************************************)

\* Model bounds.  The history capacity is 100 in the source
\* (token-processor.service.ts:373); it is scaled down so that overflow is
\* reached exhaustively.
MaxHistory == 3

MaxTasks == 2

MaxEvents == 4

MaxClock == 2

\* Pending setTimeout callbacks of the listener, and live setInterval timers.
MaxPending == 2

\* Sockets with attached handlers that this.ws no longer refers to, and
\* start() calls suspended at their await.
MaxStale == 1

\* Saturation of the count of reconnect attempts since the last open.
MaxCounted == 6

\* Registered 'migration' handlers, and tokens emitted on the monitor's bus.
MaxHandlers == 2

MaxBus == 2

\* Heartbeats written to one subscriber.
MaxBeats == 1

\* tokens.slice(0, 30) of the 'initial' event, scaled with MaxHistory.
InitialLimit == 1

Mints == {"m1", "m2"}

Subs == {"s1", "s2"}

\* A request to /api/stream that has not arrived yet.
NoSubscriber ==
  [state |-> "idle", handlers |-> FALSE, heartbeat |-> FALSE, broken |-> FALSE,
   log |-> <<>>, beats |-> 0, writeFailed |-> FALSE]

\* A fresh TokenMonitorService with no subscriber.
InitBus ==
  /\ loading = 0
  /\ migrationHandlers = 0
  /\ subs = [s \in Subs |-> NoSubscriber]
  /\ emittedLoading = 0
  /\ emittedLoaded = 0
  /\ emittedTokens = 0
  /\ unhandledRejection = FALSE

\* sol-price.service.ts: null, and the prices the sources answer with.
NullPrice == 0

Prices == {100, 200}

CACHE_TTL_MS == 30000

\* axios timeout of each price source, which is also the step of the clock.
SourceTimeout == 5000

\* Steps of the price clock.
MaxPriceTicks == 8

PriceSources == <<"coingecko", "binance", "kraken">>

PriceCallers == {"p1", "p2"}

\* No getSolPrice call in progress for this caller.
NoPriceCall == [stage |-> 0, now |-> 0, waited |-> FALSE]

NoPriceResult == [from |-> "none", price |-> NullPrice, age |-> 0]

\* sol-price.service.ts after loading: cachedPrice = null, cacheTimestamp = 0.
InitPrice ==
  /\ cachedPrice = NullPrice
  /\ cacheTimestamp = 0
  /\ priceClock = 0
  /\ priceCalls = [c \in PriceCallers |-> NoPriceCall]
  /\ obtainedAt = 0
  /\ lastPrice = NoPriceResult

\* The three environment variables fetchGraduatedTokens reads.
MaxKeys == 3

FetchCallers == {"f1", "f2"}

\* No fetchGraduatedTokens call made yet by this caller.
NoFetch == [state |-> "idle", i |-> 0, tried |-> <<>>, answer |-> "none",
            result |-> "none"]

\* moralis.service.ts after loading: currentKeyIndex = 0.
InitFetches ==
  /\ currentKeyIndex = 0
  /\ fetches = [f \in FetchCallers |-> NoFetch]

\* All three credentials configured.
InitKeys == keyCount = MaxKeys /\ InitFetches

\* undefined, for a number that is never negative.
Undefined == -1

\* message.marketCapSol of a frame (0: absent) and fullyDilutedValuation of
\* a backfill item (0: absent).
MarketCapSolSamples == {0, 50}

FdvSamples == {0, 7000}

NoEvent == [origin |-> "none", marketCapSol |-> 0, price |-> NullPrice,
            marketCap |-> Undefined]

InitEvents == lastEvent = NoEvent

\* Nothing thrown and nothing emitted yet.
InitHistory ==
  /\ listenerCaught = FALSE
  /\ listenerEscaped = FALSE
  /\ announcements = [passed |-> 0, filtered |-> 0]

InitProviders == InitPrice /\ InitKeys /\ InitEvents /\ InitHistory

InitEngineIdle ==
  /\ enginePc = "idle"
  /\ engineCfg = DefaultConfig
  /\ engineInput = NoInput
  /\ engineNow = 0
  /\ engineOut = NoAnalysis
  /\ enginePrev = NoAnalysis

\* Module state of token-processor.service.ts after loading, with the
\* filter engine built from the environment, and a fresh TokenMonitorService.
InitProcessor ==
  /\ thresholds = Thresholds(DefaultConfig)
  /\ processedTokens = <<>>
  /\ stats = [monitored |-> 0, passed |-> 0, filtered |-> 0]
  /\ tasks = EmptyBag
  /\ now = 1
  /\ initialLoadComplete = FALSE
  /\ backfill \in {<<"m1">>, <<"m2", "m1">>}

\* A fresh PumpPortalListener and a monitor that has not been started.
InitListener ==
  /\ isRunning = FALSE
  /\ startPending = 0
  /\ ws = "null"
  /\ orphanConnecting = 0
  /\ orphanOpen = 0
  /\ orphanClosing = 0
  /\ isConnecting = FALSE
  /\ reconnectAttempts = 0
  /\ timers = <<>>
  /\ pingInterval = FALSE
  /\ activePings = 0
  /\ attemptsSinceOpen = 0
  /\ lastWait = 0
  /\ stopped = FALSE

InitProcessorIdle ==
  /\ thresholds = Thresholds(DefaultConfig)
  /\ processedTokens = <<>>
  /\ stats = [monitored |-> 0, passed |-> 0, filtered |-> 0]
  /\ tasks = EmptyBag
  /\ now = 1
  /\ initialLoadComplete = FALSE
  /\ backfill = <<>>

(***************************************************************************)
(* The scoring engine applied to one input                                 *)
(***************************************************************************)

InitEngine ==
  /\ enginePc = "ready"
  /\ engineCfg \in ConfigSamples
  /\ engineInput \in TokenDataSamples
  /\ engineNow = EngineClock
  /\ engineOut = NoAnalysis
  /\ enginePrev = NoAnalysis
  /\ InitProcessorIdle
  /\ InitListener
  /\ InitBus
  /\ InitProviders

\* new ScamFilterEngine(cfg).analyzeToken(input)
Analyze ==
  /\ enginePc = "ready"
  /\ enginePc' = "done"
  /\ engineOut' = analyzeToken(engineInput, Thresholds(engineCfg), engineNow)
  /\ UNCHANGED <<engineCfg, engineInput, engineNow, enginePrev, pvars, lvars, ovars>>

\* Time passes between two scorings of the same record.
ClockAdvance ==
  /\ enginePc = "done"
  /\ enginePc' = "later"
  /\ engineNow' = engineNow + RescoreDelay
  /\ UNCHANGED <<engineCfg, engineInput, engineOut, enginePrev, pvars, lvars, ovars>>

\* analyzeToken(input) once more on the same engine and the same record.
AnalyzeAgain ==
  /\ enginePc = "later"
  /\ enginePc' = "rescored"
  /\ enginePrev' = engineOut
  /\ engineOut' = analyzeToken(engineInput, Thresholds(engineCfg), engineNow)
  /\ UNCHANGED <<engineCfg, engineInput, engineNow, pvars, lvars, ovars>>

NextEngine == Analyze \/ ClockAdvance \/ AnalyzeAgain

SpecEngine == InitEngine /\ [][NextEngine]_vars

\* C5: for every record and every configured minScore, analysis.passed is
\* true exactly when analysis.score >= the configured minScore; with
\* minScore = 0 every record passes and with minScore = 101 none does.
C5_PassedIffScoreAtLeastMinScore ==
  enginePc = "done" =>
    /\ engineOut.passed <=> (engineOut.score >= engineCfg.minScore)
    /\ engineCfg.minScore = 0 => engineOut.passed
    /\ engineCfg.minScore = 101 => ~engineOut.passed

\* C6: for every input, analysis.score is an integer in 0..100 and
\* analysis.dangerScore.overall lies in 0..100.
C6_ScoreAndDangerInRange ==
  enginePc = "done" =>
    /\ engineOut.score \in 0..100
    /\ engineOut.dangerScore.overall \in 0..100

\* A scored record whose penalties exceed the base score and whose danger
\* boosts exceed 100 before the cap.
C6_Witness ==
  /\ enginePc = "done"
  /\ engineOut.score = 0
  /\ engineOut.compositeRisks.rugInProgress
  /\ engineOut.dangerScore.overall = 100

\* C7: a record whose holderCount is -1 never receives a "Low holders" or
\* "Moderate holders" flag, and with an empty holders list its
\* HolderDistribution penalty is 0.
C7_UnknownHolderCountNotPenalised ==
  (enginePc = "done" /\ engineInput.holderCount = -1) =>
    /\ ~SeqContains(engineOut.flags, "Low holders")
    /\ ~SeqContains(engineOut.flags, "Moderate holders")
    /\ engineInput.holders = <<>> => engineOut.breakdown.holders.penalty = 0

\* C23: every flag of analysis.flags is a flag of some entry of
\* analysis.breakdown or one of the composite-risk flags.
C23_FlagsCoveredByBreakdown ==
  enginePc = "done" =>
    \A i \in 1..Len(engineOut.flags) :
      \/ \E check \in DOMAIN engineOut.breakdown :
            SeqContains(engineOut.breakdown[check].flags, engineOut.flags[i])
      \/ SeqContains(CompositeFlags(engineOut.compositeRisks), engineOut.flags[i])

\* The record's age in minutes at the time of scoring, measured from
\* pairCreatedAt, else from the migration timestamp.
RecordAgeMin ==
  engineNow - OrDefault(engineInput.priceData.pairCreatedAt, engineInput.migrationTimestamp)

\* C28: a record that is 24 h old or older, its age measured from
\* pairCreatedAt or else from the migration timestamp, has none of
\* rugInProgress, pumpSetup and coordinatedDump set.
C28_OldTokenHasNoAgeGatedRisk ==
  (enginePc = "done" /\ RecordAgeMin >= 24 * 60) =>
    /\ ~engineOut.compositeRisks.rugInProgress
    /\ ~engineOut.compositeRisks.pumpSetup
    /\ ~engineOut.compositeRisks.coordinatedDump

\* The DeveloperHoldings penalty as a function of the devHoldings fraction d
\* (in basis points) alone.
DevPenaltyOf(d, th) ==
  IF d > 2500 THEN 15
  ELSE IF d > th.maxDevHoldings THEN 10
  ELSE IF d > 500 THEN 5
  ELSE 0

\* C29: the DeveloperHoldings penalty is 15 when devHoldings > 0.25, else 10
\* when it exceeds maxDevHoldings, else 5 when it exceeds 0.05, else 0,
\* whatever the holders list.
C29_DevPenaltyFollowsFraction ==
  enginePc = "done" =>
    engineOut.breakdown.developer.penalty
      = DevPenaltyOf(engineInput.devHoldings, Thresholds(engineCfg))

\* C30: the "Balanced trading activity" bonus is given only to a record with
\* more than 10 trades whose buys are between 40% and 60% of them.
C30_BalancedBonusNeedsTrades ==
  LET buys == engineInput.priceData.buys24h
      totalTrades == buys + engineInput.priceData.sells24h
  IN (enginePc = "done" /\ SeqContains(engineOut.positiveSignals, "Balanced trading activity")) =>
       /\ totalTrades > 10
       /\ buys * 100 >= 40 * totalTrades
       /\ buys * 100 <= 60 * totalTrades

\* C22: scoring the same record a second time, later, yields the same
\* AnalysisResult.
C22_ScoringDeterministic ==
  enginePc = "rescored" => engineOut = enginePrev

(***************************************************************************)
(* processNewMigration and its callers                                     *)
(***************************************************************************)

Absent == [present |-> FALSE]

\* What the providers answer for one enrichment.  "absent": every call
\* failed or timed out; "onchain": only the RPC probe answered (it reports
\* holderCount -1 and the largest accounts); "healthy": every call answered.
ProviderIds == {"absent", "onchain", "healthy"}

\* the provider answers tried for the enrichments of the monitor
MonitorProviderIds == {"absent", "healthy"}

\* graduation time reported by the graduated-token index for backfill items
BackfillTimestamp == 0 - 5760

ProviderData(id) ==
  IF id = "absent" THEN
    [pairs |-> <<>>, moralisHolderData |-> Absent, moralisTradingStats |-> Absent,
     onChainData |-> Absent, transactions |-> <<>>, securityCheck |-> NoSecurity,
     launchAnalysis |-> NoLaunch, walletFunding |-> NoFunding,
     creatorHistory |-> NoCreatorHistory]
  ELSE IF id = "onchain" THEN
    [pairs |-> <<>>, moralisHolderData |-> Absent,
     moralisTradingStats |-> [present |-> TRUE, trades24h |-> 300, buys24h |-> 40,
                              sells24h |-> 260, uniqueTraders24h |-> 50, volume24h |-> 50000],
     onChainData |-> [present |-> TRUE, holderCount |-> -1, holders |-> ConcentratedHolders,
                      devHoldings |-> 3500, top10Percentage |-> 80],
     transactions |-> WashTxs, securityCheck |-> NoSecurity,
     launchAnalysis |-> Launch(TRUE, 5, 25, 60, TRUE), walletFunding |-> Funding(TRUE, 5, 5, TRUE),
     creatorHistory |-> Creator(TRUE, TRUE, 12, 35, 10)]
  ELSE
    [pairs |-> <<[volume24hrUsd |-> 100000, liquidityUsd |-> 80000]>>,
     moralisHolderData |-> [present |-> TRUE, totalHolders |-> 600,
                            devHoldingsPercent |-> 0, top10Percent |-> 0],
     moralisTradingStats |-> [present |-> TRUE, trades24h |-> 1000, buys24h |-> 480,
                              sells24h |-> 520, uniqueTraders24h |-> 400, volume24h |-> 90000],
     onChainData |-> [present |-> TRUE, holderCount |-> -1, holders |-> <<>>,
                      devHoldings |-> 0, top10Percentage |-> 0],
     transactions |-> <<>>, securityCheck |-> SecureDefaults,
     launchAnalysis |-> LaunchDefaults, walletFunding |-> Funding(TRUE, 0, 0, FALSE),
     creatorHistory |-> Creator(TRUE, FALSE, 1, 1, 0)]

\* The fused input handed to filterEngine.analyzeToken (lines 110-305).
BuildTokenData(task, provider) ==
  LET p == ProviderData(provider)
      ev == task.event
      totalVolume24h == SeqSum([i \in 1..Len(p.pairs) |-> p.pairs[i].volume24hrUsd])
      pairsLiquidity == SeqSum([i \in 1..Len(p.pairs) |-> p.pairs[i].liquidityUsd])
      ts == p.moralisTradingStats
      moralisDevPct == IF p.moralisHolderData.present
                       THEN p.moralisHolderData.devHoldingsPercent ELSE 0
      onChainDevPct == IF p.onChainData.present THEN p.onChainData.devHoldings ELSE 0
  IN [transactions |-> IF task.fastMode THEN <<>> ELSE p.transactions,
      holders |-> IF p.onChainData.present THEN p.onChainData.holders ELSE <<>>,
      \* moralisHolderData?.totalHolders ?? onChainData?.holderCount ?? -1
      holderCount |-> IF p.moralisHolderData.present THEN p.moralisHolderData.totalHolders
                      ELSE IF p.onChainData.present THEN p.onChainData.holderCount
                      ELSE -1,
      priceData |->
        [buys24h |-> IF ts.present THEN ts.buys24h ELSE 0,
         sells24h |-> IF ts.present THEN ts.sells24h ELSE 0,
         trades24h |-> IF ts.present THEN ts.trades24h ELSE 0,
         liquidity |-> OrDefault(ev.liquidity, pairsLiquidity),
         marketCap |-> ev.marketCap,
         volume24h |-> IF totalVolume24h > 0 THEN totalVolume24h
                       ELSE IF ts.present THEN ts.volume24h ELSE 0,
         pairCreatedAt |-> 0, buys1h |-> 0, sells1h |-> 0, buys5m |-> 0, sells5m |-> 0,
         priceChange5m |-> 0, priceChange1h |-> 0],
      migrationTimestamp |-> ev.timestamp,
      security |-> IF p.securityCheck.present THEN p.securityCheck ELSE SecureDefaults,
      launchAnalysis |-> IF ~task.fastMode /\ p.launchAnalysis.present
                         THEN p.launchAnalysis ELSE LaunchDefaults,
      walletFunding |-> p.walletFunding,
      creatorHistory |-> IF ev.creator # "" THEN p.creatorHistory ELSE NoCreatorHistory,
      \* the metadata built from the event carries no social links
      metadata |-> [creator |-> ev.creator, twitter |-> FALSE, telegram |-> FALSE,
                    website |-> FALSE, genericDescription |-> FALSE, copycatName |-> FALSE],
      devHoldings |-> IF moralisDevPct > 0 THEN moralisDevPct ELSE onChainDevPct]

\* The history kept without eviction.
HistoryInsertNoEvict(history, tokenResult) == <<tokenResult>> \o history

\* processedTokens.unshift(tokenResult); if (length > 100) pop()
HistoryInsert(history, tokenResult) ==
  LET h == <<tokenResult>> \o history
  IN IF Len(h) > MaxHistory THEN SubSeq(h, 1, Len(h) - 1) ELSE h

\* The analysis time taken from the event instead of the clock.
AnalyzedAtFromEvent(task, clock) == task.event.timestamp

\* analyzedAt: Date.now() when the record is built, just before insertion
AnalyzedAt(task, clock) == clock

ReplaceTask(old, new) == (tasks (-) SetToBag({old})) (+) SetToBag({new})

\* processNewMigration up to its first await: stats.monitored++ (line 52).
Begin(ev, fastMode, src) ==
  /\ BagCardinality(tasks) < MaxTasks
  /\ stats.monitored < MaxEvents
  /\ tasks' = tasks (+) SetToBag({[event |-> ev, fastMode |-> fastMode,
                                   src |-> src, abandoned |-> FALSE]})
  /\ stats' = [stats EXCEPT !.monitored = @ + 1]

\* loadRecentTokens: the next backfill migration is handed to
\* processNewMigration in fast mode, racing an 8 s timeout.
BackfillStart ==
  /\ ~initialLoadComplete
  /\ backfill # <<>>
  /\ Begin([mint |-> Head(backfill), timestamp |-> BackfillTimestamp, marketCap |-> 500000,
            liquidity |-> 80000, creator |-> "dev", nameOk |-> TRUE], TRUE, "backfill")
  /\ backfill' = Tail(backfill)
  /\ UNCHANGED <<thresholds, processedTokens, now, initialLoadComplete, evars, lvars, ovars>>

\* The 8 s timeout of a backfill item wins the race: the caller skips the
\* token, the enrichment itself keeps running.
BackfillTimeout(task) ==
  /\ BagIn(task, tasks)
  /\ task.src = "backfill"
  /\ ~task.abandoned
  /\ tasks' = ReplaceTask(task, [task EXCEPT !.abandoned = TRUE])
  /\ UNCHANGED <<thresholds, processedTokens, stats, now, initialLoadComplete,
                 backfill, evars, lvars, ovars>>

\* Every backfill item has settled: initialLoadComplete, historyLoaded.
BackfillFinish ==
  /\ ~initialLoadComplete
  /\ backfill = <<>>
  /\ \A t \in BagToSet(tasks) : t.src = "backfill" => t.abandoned
  /\ initialLoadComplete' = TRUE
  /\ UNCHANGED <<thresholds, processedTokens, stats, tasks, now, backfill, evars, lvars, ovars>>

\* The 'migration' handler registered by start() after the backfill: a
\* frame arrives, whose name may not be a string (frames are not validated).
LiveMigration(mint, nameOk) ==
  /\ initialLoadComplete
  /\ Begin([mint |-> mint, timestamp |-> now, marketCap |-> 500000, liquidity |-> 0,
            creator |-> "", nameOk |-> nameOk], FALSE, "live")
  /\ UNCHANGED <<thresholds, processedTokens, now, initialLoadComplete, backfill,
                 evars, lvars, ovars>>

\* The 'migration' handler receives a frame without a mint.
\* processNewMigration throws at tokenAddress.slice (line 51), before
\* stats.monitored++ and before its try block; the handler's catch calls
\* this.emit('error', error), and since nothing listens for 'error' on the
\* monitor, emit throws inside the async handler: its promise is rejected
\* and nothing handles the rejection.
MalformedMigration ==
  /\ initialLoadComplete
  /\ unhandledRejection' = TRUE
  /\ UNCHANGED <<loading, migrationHandlers, subs, emittedLoading, emittedLoaded,
                 emittedTokens>>
  /\ UNCHANGED <<evars, pvars, lvars, xvars>>

\* POST /analyze and the 'analyze:token' socket message.
ManualAnalyze(mint) ==
  /\ Begin([mint |-> mint, timestamp |-> now, marketCap |-> 0, liquidity |-> 0,
            creator |-> "", nameOk |-> TRUE], FALSE, "manual")
  /\ UNCHANGED <<thresholds, processedTokens, now, initialLoadComplete, backfill,
                 evars, lvars, ovars>>

\* The provider calls have settled (lines 58-269, which change no shared
\* state) and the synchronous tail runs (lines 292-390): scoring of the
\* fused provider answers, tokenResult, stats, history,
\* return to the caller.  Scoring throws on a name that is not a string
\* (checkSocialSignals calls name.toLowerCase()); the catch block logs and
\* returns null.  The caller then announces the record: the backfill loop
\* unless its 8 s timeout has already won the race (lines 84-95 of
\* token-monitor.service.ts), the live 'migration' handler always (lines
\* 151-162); POST /analyze announces nothing on the bus.
Complete(task, provider) ==
  LET analysis == analyzeToken(BuildTokenData(task, provider), thresholds, now)
      tokenResult == [address |-> task.event.mint, analyzedAt |-> AnalyzedAt(task, now),
                      migrationTimestamp |-> task.event.timestamp,
                      passed |-> analysis.passed]
      announced == task.event.nameOk /\ ~task.abandoned /\ task.src # "manual"
  IN /\ BagIn(task, tasks)
     /\ tasks' = tasks (-) SetToBag({task})
     /\ IF task.event.nameOk
        THEN /\ stats' = IF analysis.passed THEN [stats EXCEPT !.passed = @ + 1]
                         ELSE [stats EXCEPT !.filtered = @ + 1]
             /\ processedTokens' = HistoryInsert(processedTokens, tokenResult)
        ELSE UNCHANGED <<stats, processedTokens>>
     /\ announcements' =
          IF ~announced THEN announcements
          ELSE IF analysis.passed THEN [announcements EXCEPT !.passed = @ + 1]
          ELSE [announcements EXCEPT !.filtered = @ + 1]
     /\ UNCHANGED <<thresholds, now, initialLoadComplete, backfill, evars, lvars,
                    bvars, svars, kvars, hvars, listenerCaught, listenerEscaped>>

\* Time passes.
Tick ==
  /\ now < MaxClock
  /\ now' = now + 1
  /\ UNCHANGED <<thresholds, processedTokens, stats, tasks, initialLoadComplete,
                 backfill, evars, lvars, ovars>>

Init == InitEngineIdle /\ InitProcessor /\ InitListener /\ InitBus /\ InitProviders

Next ==
  \/ BackfillStart
  \/ \E task \in BagToSet(tasks) : BackfillTimeout(task)
  \/ BackfillFinish
  \/ \E mint \in Mints, nameOk \in BOOLEAN : LiveMigration(mint, nameOk)
  \/ MalformedMigration
  \/ \E mint \in Mints : ManualAnalyze(mint)
  \/ \E task \in BagToSet(tasks), id \in MonitorProviderIds : Complete(task, id)
  \/ Tick

Spec == Init /\ [][Next]_vars

(***************************************************************************)
(* Properties of the history and the stats                                 *)
(***************************************************************************)

\* C1: the history contains at most one record per mint.
C1_AtMostOneRecordPerMint ==
  \A i, j \in 1..Len(processedTokens) :
    i # j => processedTokens[i].address # processedTokens[j].address

\* An insert into a full history has happened.
Evicted == stats.passed + stats.filtered > MaxHistory

\* C2: the history never holds more than its capacity, and an insert into a
\* full history evicts exactly one record.
C2_HistoryBounded ==
  /\ [](Len(processedTokens) <= MaxHistory)
  /\ [][(Len(processedTokens) = MaxHistory /\ processedTokens' # processedTokens)
          => /\ Len(processedTokens') = MaxHistory
             /\ \E gone \in 1..MaxHistory :
                  \A i \in 1..MaxHistory :
                    i # gone => \E j \in 1..MaxHistory :
                                  processedTokens'[j] = processedTokens[i]]_vars

C2_Witness ==
  /\ Len(processedTokens) = MaxHistory
  /\ Evicted

\* C3: whenever no enrichment is in flight, stats.monitored equals
\* stats.passed + stats.filtered.
C3_StatsBalancedAtQuiescence ==
  tasks = EmptyBag => stats.monitored = stats.passed + stats.filtered

\* C4: the history is sorted by analyzedAt, newest first, and the record
\* evicted on overflow is the one with the oldest analyzedAt.
C4_SortedNewestFirst ==
  /\ [](\A i, j \in 1..Len(processedTokens) :
          i < j => processedTokens[i].analyzedAt >= processedTokens[j].analyzedAt)
  /\ [][(Len(processedTokens) = MaxHistory /\ processedTokens' # processedTokens)
          => /\ SubSeq(processedTokens', 2, MaxHistory)
                  = SubSeq(processedTokens, 1, MaxHistory - 1)
             /\ \A i \in 1..MaxHistory :
                  processedTokens[MaxHistory].analyzedAt <= processedTokens'[i].analyzedAt]_vars

\* A full history that has overflowed and holds two records whose
\* enrichments finished in the opposite order of their start: the record
\* nearer the head was started earlier.
C4_Witness ==
  /\ Len(processedTokens) = MaxHistory
  /\ Evicted
  /\ \E i, j \in 1..Len(processedTokens) :
       /\ i < j
       /\ processedTokens[j].migrationTimestamp > 0
       /\ processedTokens[i].migrationTimestamp > 0
       /\ processedTokens[i].migrationTimestamp < processedTokens[j].migrationTimestamp

\* C11: an error raised while one migration event is processed never
\* leaves a promise rejection that nothing handles.
C11_NoUnhandledRejection == ~unhandledRejection

\* C27: when an enrichment started by the monitor (backfill or live) ends,
\* tokenPassed and tokenFiltered are emitted exactly as stats.passed and
\* stats.filtered are incremented: a record counted and inserted is announced
\* by one event of its kind, and a backfill item skipped on its 8 s timeout
\* is neither counted nor inserted.
C27_InsertedRecordsAnnounced ==
  [][\A t \in BagToSet(tasks) :
       (tasks' = tasks (-) SetToBag({t}) /\ t.src # "manual") =>
         /\ announcements'.passed - announcements.passed = stats'.passed - stats.passed
         /\ announcements'.filtered - announcements.filtered
              = stats'.filtered - stats.filtered
         /\ t.abandoned => processedTokens' = processedTokens]_vars

\* C12: every enrichment that ends returns a record, which is counted as
\* passed or filtered.
C12_EnrichmentReturnsRecord ==
  [][BagCardinality(tasks') < BagCardinality(tasks)
       => stats'.passed + stats'.filtered = stats.passed + stats.filtered + 1]_vars

(***************************************************************************)
(* PumpPortalListener and the monitor's start() and stop()                 *)
(***************************************************************************)

\* private maxReconnectAttempts = 10
maxReconnectAttempts == 10

\* private reconnectDelay = 5000
reconnectDelay == 5000

\* Math.min(this.reconnectAttempts, 5)
maxDelayFactor == 5

\* setTimeout(..., 10000) in connect()
connectTimeout == 10000

\* setTimeout(..., 60000) in scheduleReconnect()
cooldownDelay == 60000

Timer(kind, delay) == [kind |-> kind, delay |-> delay]

RemoveAt(q, i) == SubSeq(q, 1, i - 1) \o SubSeq(q, i + 1, Len(q))

\* A pending callback can run only when no callback scheduled before it
\* with a delay at most its own is still pending.
CanFire(i) ==
  /\ i \in 1..Len(timers)
  /\ \A j \in 1..(i - 1) : timers[j].delay > timers[i].delay

Orphans == orphanConnecting + orphanOpen + orphanClosing

\* scheduleReconnect(): the counter and the timer queue it leaves behind.
scheduleReconnect(attempts, q) ==
  IF attempts >= maxReconnectAttempts
  THEN [reconnectAttempts |-> attempts,
        timers |-> Append(q, Timer("cooldown", cooldownDelay))]
  ELSE [reconnectAttempts |-> attempts + 1,
        timers |-> Append(q, Timer("reconnect",
                     reconnectDelay * Min(attempts + 1, maxDelayFactor)))]

\* stopPingInterval()
stopPingInterval ==
  /\ pingInterval' = FALSE
  /\ activePings' = IF pingInterval THEN activePings - 1 ELSE activePings

\* connect(), called with timer queue q; wait is the delay of the reconnect
\* timer that calls it, 0 when start() calls it.
connect(q, wait) ==
  IF isConnecting \/ ws = "open"
  THEN /\ timers' = q
       /\ lastWait' = 0
       /\ UNCHANGED <<ws, orphanConnecting, isConnecting, attemptsSinceOpen>>
  ELSE /\ Len(q) < MaxPending
       /\ ws = "connecting" => Orphans < MaxStale
       /\ isConnecting' = TRUE
       /\ ws' = "connecting"
       /\ orphanConnecting' = orphanConnecting + (IF ws = "connecting" THEN 1 ELSE 0)
       /\ timers' = Append(q, Timer("timeout", connectTimeout))
       /\ attemptsSinceOpen' =
            IF wait # 0 THEN Min(attemptsSinceOpen + 1, MaxCounted) ELSE attemptsSinceOpen
       /\ lastWait' = wait

\* start() up to its await of loadRecentTokens.
StartBegin ==
  /\ ~isRunning
  /\ startPending < MaxStale
  /\ isRunning' = TRUE
  /\ startPending' = startPending + 1
  /\ lastWait' = 0
  /\ UNCHANGED <<ws, orphanConnecting, orphanOpen, orphanClosing, isConnecting,
                 reconnectAttempts, timers, pingInterval, activePings,
                 attemptsSinceOpen, stopped>>
  /\ UNCHANGED <<evars, pvars, ovars>>

\* start() after the await: listener.connect().
StartConnect ==
  /\ startPending > 0
  /\ startPending' = startPending - 1
  /\ connect(timers, 0)
  /\ UNCHANGED <<isRunning, orphanOpen, orphanClosing, reconnectAttempts,
                 pingInterval, activePings, stopped>>
  /\ UNCHANGED <<evars, pvars, ovars>>

\* stop(): listener.disconnect() closes the socket and forgets it.
Stop ==
  /\ isRunning
  /\ ws \in {"connecting", "open"} => Orphans < MaxStale
  /\ isRunning' = FALSE
  /\ stopped' = TRUE
  /\ stopPingInterval
  /\ orphanClosing' = orphanClosing + (IF ws \in {"connecting", "open"} THEN 1 ELSE 0)
  /\ ws' = "null"
  /\ lastWait' = 0
  /\ UNCHANGED <<startPending, orphanConnecting, orphanOpen, isConnecting,
                 reconnectAttempts, timers, attemptsSinceOpen>>
  /\ UNCHANGED <<evars, pvars, ovars>>

\* The 'open' handler of a connecting socket.
SocketOpen(s) ==
  /\ \/ /\ s = "ws"
        /\ ws = "connecting"
        /\ ws' = "open"
        /\ UNCHANGED <<orphanConnecting, orphanOpen>>
     \/ /\ s = "orphanConnecting"
        /\ orphanConnecting > 0
        /\ orphanConnecting' = orphanConnecting - 1
        /\ orphanOpen' = orphanOpen + 1
        /\ UNCHANGED ws
  /\ activePings < MaxPending
  /\ isConnecting' = FALSE
  /\ reconnectAttempts' = 0
  /\ pingInterval' = TRUE
  /\ activePings' = activePings + 1
  /\ attemptsSinceOpen' = 0
  /\ lastWait' = 0
  /\ UNCHANGED <<isRunning, startPending, orphanClosing, timers, stopped>>
  /\ UNCHANGED <<evars, pvars, ovars>>

\* The 'error' handler of an open socket.
WsError(s) ==
  /\ \/ s = "ws" /\ ws = "open"
     \/ s = "orphanOpen" /\ orphanOpen > 0
  /\ isConnecting' = FALSE
  /\ lastWait' = 0
  /\ UNCHANGED <<isRunning, startPending, ws, orphanConnecting, orphanOpen,
                 orphanClosing, reconnectAttempts, timers, pingInterval,
                 activePings, attemptsSinceOpen, stopped>>
  /\ UNCHANGED <<evars, pvars, ovars>>

\* The 'close' handler of a socket: a failed handshake (with its 'error'
\* handler run just before), a dropped connection, or a completed close().
WsClose(s) ==
  /\ \/ /\ s = "ws"
        /\ ws \in {"connecting", "open"}
        /\ ws' = "closed"
        /\ UNCHANGED <<orphanConnecting, orphanOpen, orphanClosing>>
     \/ /\ s = "orphanConnecting"
        /\ orphanConnecting > 0
        /\ orphanConnecting' = orphanConnecting - 1
        /\ UNCHANGED <<ws, orphanOpen, orphanClosing>>
     \/ /\ s = "orphanOpen"
        /\ orphanOpen > 0
        /\ orphanOpen' = orphanOpen - 1
        /\ UNCHANGED <<ws, orphanConnecting, orphanClosing>>
     \/ /\ s = "orphanClosing"
        /\ orphanClosing > 0
        /\ orphanClosing' = orphanClosing - 1
        /\ UNCHANGED <<ws, orphanConnecting, orphanOpen>>
  /\ Len(timers) < MaxPending
  /\ isConnecting' = FALSE
  /\ stopPingInterval
  /\ LET r == scheduleReconnect(reconnectAttempts, timers)
     IN /\ reconnectAttempts' = r.reconnectAttempts
        /\ timers' = r.timers
  /\ lastWait' = 0
  /\ UNCHANGED <<isRunning, startPending, attemptsSinceOpen, stopped>>
  /\ UNCHANGED <<evars, pvars, ovars>>

\* The 10 s callback set by connect().
ConnectTimeout(i) ==
  /\ CanFire(i)
  /\ timers[i].kind = "timeout"
  /\ IF isConnecting
     THEN /\ isConnecting' = FALSE
          /\ LET r == scheduleReconnect(reconnectAttempts, RemoveAt(timers, i))
             IN /\ reconnectAttempts' = r.reconnectAttempts
                /\ timers' = r.timers
     ELSE /\ timers' = RemoveAt(timers, i)
          /\ UNCHANGED <<isConnecting, reconnectAttempts>>
  /\ lastWait' = 0
  /\ UNCHANGED <<isRunning, startPending, ws, orphanConnecting, orphanOpen,
                 orphanClosing, pingInterval, activePings, attemptsSinceOpen, stopped>>
  /\ UNCHANGED <<evars, pvars, ovars>>

\* The callback set by scheduleReconnect() below the attempt limit.
ReconnectTimer(i) ==
  /\ CanFire(i)
  /\ timers[i].kind = "reconnect"
  /\ connect(RemoveAt(timers, i), timers[i].delay)
  /\ UNCHANGED <<isRunning, startPending, orphanOpen, orphanClosing,
                 reconnectAttempts, pingInterval, activePings, stopped>>
  /\ UNCHANGED <<evars, pvars, ovars>>

\* The 60 s callback set by scheduleReconnect() at the attempt limit.
CooldownTimer(i) ==
  /\ CanFire(i)
  /\ timers[i].kind = "cooldown"
  /\ reconnectAttempts' = 0
  /\ timers' = RemoveAt(timers, i)
  /\ lastWait' = 0
  /\ UNCHANGED <<isRunning, startPending, ws, orphanConnecting, orphanOpen,
                 orphanClosing, isConnecting, pingInterval, activePings,
                 attemptsSinceOpen, stopped>>
  /\ UNCHANGED <<evars, pvars, ovars>>

TimerFires ==
  \E i \in 1..MaxPending : ConnectTimeout(i) \/ ReconnectTimer(i) \/ CooldownTimer(i)

InitListenerSpec == InitEngineIdle /\ InitProcessorIdle /\ InitListener /\ InitBus /\ InitProviders

NextListener ==
  \/ StartBegin
  \/ StartConnect
  \/ Stop
  \/ \E s \in {"ws", "orphanConnecting"} : SocketOpen(s)
  \/ \E s \in {"ws", "orphanOpen"} : WsError(s)
  \/ \E s \in {"ws", "orphanConnecting", "orphanOpen", "orphanClosing"} : WsClose(s)
  \/ \E i \in 1..MaxPending : ConnectTimeout(i)
  \/ \E i \in 1..MaxPending : ReconnectTimer(i)
  \/ \E i \in 1..MaxPending : CooldownTimer(i)

SpecListener == InitListenerSpec /\ [][NextListener]_vars

\* Timers expire, the continuation of start() runs, and a close() completes.
\* Nothing obliges the server to answer, to fail, or to drop a connection.
FairSpecListener ==
  /\ SpecListener
  /\ WF_vars(TimerFires)
  /\ WF_vars(StartConnect)
  /\ WF_vars(WsClose("orphanClosing"))

\* C8: while the monitor is stopped and no start() is in progress, no
\* connection attempt is begun.
C8_NoConnectWhileStopped ==
  [][(~isRunning /\ ~isRunning' /\ startPending = 0) => ~(isConnecting' /\ ~isConnecting)]_vars

\* C9: while the monitor is running, a closed connection is eventually
\* followed by a new connection attempt.
C9_DisconnectionLeadsToAttempt ==
  (isRunning /\ ws = "closed") ~> (ws = "connecting" \/ ~isRunning)

\* C10: when a reconnect timer begins the k-th reconnect attempt since the
\* last successful open, in a run in which stop() was never called, the
\* timer's delay was 5 s x min(k, 5).
C10_LinearBackoff ==
  (lastWait # 0 /\ ~stopped) =>
    lastWait = reconnectDelay * Min(attemptsSinceOpen, maxDelayFactor)

(***************************************************************************)
(* Listeners of the Migration Source that throw                            *)
(***************************************************************************)

ThrowFrame ==
  /\ UNCHANGED announcements
  /\ UNCHANGED <<evars, pvars, bvars, svars, kvars, hvars>>

\* The 'open' handler when a 'connected' listener throws: the handler has
\* done everything but resolve(), and the exception leaves it.
SocketOpenThrows(s) ==
  /\ \/ /\ s = "ws"
        /\ ws = "connecting"
        /\ ws' = "open"
        /\ UNCHANGED <<orphanConnecting, orphanOpen>>
     \/ /\ s = "orphanConnecting"
        /\ orphanConnecting > 0
        /\ orphanConnecting' = orphanConnecting - 1
        /\ orphanOpen' = orphanOpen + 1
        /\ UNCHANGED ws
  /\ activePings < MaxPending
  /\ isConnecting' = FALSE
  /\ reconnectAttempts' = 0
  /\ pingInterval' = TRUE
  /\ activePings' = activePings + 1
  /\ attemptsSinceOpen' = 0
  /\ lastWait' = 0
  /\ listenerEscaped' = TRUE
  /\ UNCHANGED <<isRunning, startPending, orphanClosing, timers, stopped, listenerCaught>>
  /\ ThrowFrame

\* The 'message' handler when a 'migration' listener throws: handleMessage
\* runs inside the handler's try block, whose catch logs the exception.
MessageListenerThrows ==
  /\ ws = "open" \/ orphanOpen > 0
  /\ listenerCaught' = TRUE
  /\ UNCHANGED <<lvars, listenerEscaped>>
  /\ ThrowFrame

\* The 'close' handler when a 'disconnected' listener throws: isConnecting
\* is cleared and the ping interval stopped, the exception leaves the
\* handler, and scheduleReconnect() is not reached.
WsCloseThrows(s) ==
  /\ \/ /\ s = "ws"
        /\ ws \in {"connecting", "open"}
        /\ ws' = "closed"
        /\ UNCHANGED <<orphanConnecting, orphanOpen, orphanClosing>>
     \/ /\ s = "orphanConnecting"
        /\ orphanConnecting > 0
        /\ orphanConnecting' = orphanConnecting - 1
        /\ UNCHANGED <<ws, orphanOpen, orphanClosing>>
     \/ /\ s = "orphanOpen"
        /\ orphanOpen > 0
        /\ orphanOpen' = orphanOpen - 1
        /\ UNCHANGED <<ws, orphanConnecting, orphanClosing>>
     \/ /\ s = "orphanClosing"
        /\ orphanClosing > 0
        /\ orphanClosing' = orphanClosing - 1
        /\ UNCHANGED <<ws, orphanConnecting, orphanOpen>>
  /\ isConnecting' = FALSE
  /\ stopPingInterval
  /\ lastWait' = 0
  /\ listenerEscaped' = TRUE
  /\ UNCHANGED <<isRunning, startPending, reconnectAttempts, timers,
                 attemptsSinceOpen, stopped, listenerCaught>>
  /\ ThrowFrame

NextListenerThrowing ==
  \/ NextListener
  \/ \E s \in {"ws", "orphanConnecting"} : SocketOpenThrows(s)
  \/ MessageListenerThrows
  \/ \E s \in {"ws", "orphanConnecting", "orphanOpen", "orphanClosing"} : WsCloseThrows(s)

SpecListenerThrowing == InitListenerSpec /\ [][NextListenerThrowing]_vars

\* The socket this.ws refers to closes in this step.
WsCloses == ws \in {"connecting", "open"} /\ ws' = "closed"

\* C24: no exception of a listener leaves the handler that called it, and
\* every close of the current socket schedules a callback (the reconnect, or
\* the cooldown at the attempt limit).
C24_ListenerErrorsContained ==
  /\ [](~listenerEscaped)
  /\ [][WsCloses => Len(timers') = Len(timers) + 1]_vars

\* Sockets created by connect() that are connecting or open.
LiveSockets ==
  (IF ws \in {"connecting", "open"} THEN 1 ELSE 0) + orphanConnecting + orphanOpen

\* C26: in a run without stop(), at most one upstream WebSocket is
\* connecting or open and at most one ping interval is active.
C26_SingleUpstreamSocket ==
  ~stopped => (LiveSockets <= 1 /\ activePings <= 1)

(***************************************************************************)
(* The monitor's event bus and the subscribers of /api/stream              *)
(***************************************************************************)

\* An event written to a subscriber: its name and the number it carries (a
\* count, or the rank of the token emission).  The 'status' events forwarded
\* from the listener's connected/disconnected go through the same handlers
\* and sendEvent and are not recorded in the logs.
SseEvent(kind, n) == [kind |-> kind, n |-> n]

\* The event placed before the events already written.
DeliverAtFront(log, ev) == <<ev>> \o log

\* controller.enqueue(message): the event follows those already written.
Deliver(log, ev) == Append(log, ev)

\* sendEvent: a write to a stream that is closed throws, and the exception
\* is swallowed.
sendEvent(sub, ev) ==
  IF sub.broken THEN [sub EXCEPT !.writeFailed = TRUE]
  ELSE [sub EXCEPT !.log = Deliver(@, ev)]

\* The snapshot both branches of the route send: tokens.slice(0, 30), only
\* when there is a token.
sendInitial(sub, history) ==
  IF Len(history) > 0
  THEN sendEvent(sub, SseEvent("initial", Min(Len(history), InitialLimit)))
  ELSE sub

onLoadingHistory(sub) == sendEvent(sub, SseEvent("loading", 0))

onHistoryLoaded(sub, count, history) ==
  sendInitial(sendEvent(sub, SseEvent("loaded", count)), history)

onToken(sub, id) == sendEvent(sub, SseEvent("token", id))

\* The abort handler leaving the bus handlers registered.
abortCleanupKeepHandlers(sub) ==
  [sub EXCEPT !.state = "aborted", !.heartbeat = FALSE, !.broken = TRUE]

\* The abort handler: clearInterval, six monitor.off, controller.close().
abortCleanup(sub) ==
  [sub EXCEPT !.state = "aborted", !.heartbeat = FALSE, !.handlers = FALSE,
              !.broken = TRUE]

\* monitor.emit(...): the handlers of the subscribers run in turn; handled[s]
\* is subscriber s after its handler has run.
EmitToSubscribers(ss, handled) ==
  [s \in Subs |-> IF ss[s].handlers THEN handled[s] ELSE ss[s]]

\* start() when the monitor is not running, up to the first await: with the
\* initial load done loadRecentTokens returns at once, otherwise it emits
\* loadingHistory and a backfill begins.
startMonitor(ss) ==
  /\ loading + startPending <= MaxStale
  /\ isRunning' = TRUE
  /\ IF initialLoadComplete
     THEN /\ startPending' = startPending + 1
          /\ subs' = ss
          /\ UNCHANGED <<loading, emittedLoading>>
     ELSE /\ loading' = loading + 1
          /\ emittedLoading' = emittedLoading + 1
          /\ subs' = EmitToSubscribers(ss, [s \in Subs |-> onLoadingHistory(ss[s])])
          /\ UNCHANGED startPending

\* The records and counters of the bus specification: one mint, a fixed clock.
BusRecord(passed) ==
  [address |-> "m1", analyzedAt |-> now, migrationTimestamp |-> now, passed |-> passed]

\* processNewMigration for a well-formed event, then tokenPassed or
\* tokenFiltered on the bus.
EnrichAndEmit(passed) ==
  /\ emittedTokens < MaxBus
  /\ stats' = [stats EXCEPT !.monitored = @ + 1,
                            !.passed = @ + (IF passed THEN 1 ELSE 0),
                            !.filtered = @ + (IF passed THEN 0 ELSE 1)]
  /\ processedTokens' = HistoryInsert(processedTokens, BusRecord(passed))
  /\ emittedTokens' = emittedTokens + 1
  /\ subs' = EmitToSubscribers(subs,
               [s \in Subs |-> onToken(subs[s], emittedTokens + 1)])

\* GET /api/stream: the stream's start(controller).  Subscribers are
\* interchangeable: s1 names the one that arrives first.
Subscribe(s) ==
  LET attached == [sendEvent(NoSubscriber, SseEvent("connected", 0))
                     EXCEPT !.state = "open", !.handlers = TRUE, !.heartbeat = TRUE]
  IN /\ subs[s].state = "idle"
     /\ s = "s2" => subs["s1"].state # "idle"
     /\ IF ~isRunning
        THEN startMonitor([subs EXCEPT ![s] = attached])
        ELSE /\ subs' = [subs EXCEPT ![s] =
                    sendEvent(sendInitial(attached, processedTokens),
                              SseEvent("loaded", Len(processedTokens)))]
             /\ UNCHANGED <<isRunning, startPending, loading, emittedLoading>>
     /\ UNCHANGED <<migrationHandlers, emittedLoaded, emittedTokens, unhandledRejection>>
     /\ UNCHANGED <<ws, orphanConnecting, orphanOpen, orphanClosing, isConnecting,
                    reconnectAttempts, timers, pingInterval, activePings,
                    attemptsSinceOpen, lastWait, stopped>>
     /\ UNCHANGED <<evars, pvars, xvars>>

\* GET /api/tokens: ensureMonitorStarted calls monitor.start().
StartMonitor ==
  /\ ~isRunning
  /\ startMonitor(subs)
  /\ UNCHANGED <<migrationHandlers, emittedLoaded, emittedTokens, unhandledRejection>>
  /\ UNCHANGED <<ws, orphanConnecting, orphanOpen, orphanClosing, isConnecting,
                 reconnectAttempts, timers, pingInterval, activePings,
                 attemptsSinceOpen, lastWait, stopped>>
  /\ UNCHANGED <<evars, pvars, xvars>>

\* A backfill item is enriched and emitted (sample: it passes the filter).
BackfillToken ==
  /\ loading > 0
  /\ EnrichAndEmit(TRUE)
  /\ UNCHANGED <<loading, migrationHandlers, emittedLoading, emittedLoaded,
                 unhandledRejection>>
  /\ UNCHANGED <<thresholds, tasks, now, initialLoadComplete, backfill>>
  /\ UNCHANGED <<evars, lvars, xvars>>

\* loadRecentTokens reaches its end: initialLoadComplete, historyLoaded with
\* processedCount, and start() resumes.
LoadFinish ==
  /\ loading > 0
  /\ loading' = loading - 1
  /\ initialLoadComplete' = TRUE
  /\ emittedLoaded' = emittedLoaded + 1
  /\ subs' = EmitToSubscribers(subs,
               [s \in Subs |-> onHistoryLoaded(subs[s], emittedTokens, processedTokens)])
  /\ startPending' = startPending + 1
  /\ UNCHANGED <<migrationHandlers, emittedLoading, emittedTokens, unhandledRejection>>
  /\ UNCHANGED <<isRunning, ws, orphanConnecting, orphanOpen, orphanClosing,
                 isConnecting, reconnectAttempts, timers, pingInterval, activePings,
                 attemptsSinceOpen, lastWait, stopped>>
  /\ UNCHANGED <<thresholds, processedTokens, stats, tasks, now, backfill>>
  /\ UNCHANGED <<evars, xvars>>

\* start() after its await: the 'migration' handler is registered (once
\* more on every start) and listener.connect() is called.
StartResume ==
  /\ startPending > 0
  /\ migrationHandlers < MaxHandlers
  /\ startPending' = startPending - 1
  /\ migrationHandlers' = migrationHandlers + 1
  /\ connect(timers, 0)
  /\ UNCHANGED <<isRunning, orphanOpen, orphanClosing, reconnectAttempts,
                 pingInterval, activePings, stopped>>
  /\ UNCHANGED <<loading, subs, emittedLoading, emittedLoaded, emittedTokens,
                 unhandledRejection>>
  /\ UNCHANGED <<evars, pvars, xvars>>

\* One 'migration' handler of the monitor handles a well-formed frame of an
\* open socket (sample: the token is filtered).
LiveToken ==
  /\ migrationHandlers > 0
  /\ ws = "open" \/ orphanOpen > 0
  /\ EnrichAndEmit(FALSE)
  /\ UNCHANGED <<loading, migrationHandlers, emittedLoading, emittedLoaded,
                 unhandledRejection>>
  /\ UNCHANGED <<thresholds, tasks, now, initialLoadComplete, backfill>>
  /\ UNCHANGED <<evars, lvars, xvars>>

\* The subscriber's 30 s heartbeat.
Heartbeat(s) ==
  /\ subs[s].heartbeat
  /\ subs[s].beats < MaxBeats
  /\ subs' = [subs EXCEPT ![s] =
       IF @.broken THEN [@ EXCEPT !.writeFailed = TRUE]
       ELSE [@ EXCEPT !.beats = @ + 1]]
  /\ UNCHANGED <<loading, migrationHandlers, emittedLoading, emittedLoaded,
                 emittedTokens, unhandledRejection>>
  /\ UNCHANGED <<evars, pvars, lvars, xvars>>

\* The request's abort signal.
Abort(s) ==
  /\ subs[s].state = "open"
  /\ subs' = [subs EXCEPT ![s] = abortCleanup(@)]
  /\ UNCHANGED <<loading, migrationHandlers, emittedLoading, emittedLoaded,
                 emittedTokens, unhandledRejection>>
  /\ UNCHANGED <<evars, pvars, lvars, xvars>>

\* The stream is closed from the reader's side; enqueue throws from now on.
StreamClosed(s) ==
  /\ subs[s].state = "open"
  /\ ~subs[s].broken
  /\ subs' = [subs EXCEPT ![s].broken = TRUE]
  /\ UNCHANGED <<loading, migrationHandlers, emittedLoading, emittedLoaded,
                 emittedTokens, unhandledRejection>>
  /\ UNCHANGED <<evars, pvars, lvars, xvars>>

\* stop(), called at most once.
StopOnce == ~stopped /\ Stop

NextMonitor ==
  \/ \E s \in Subs : Subscribe(s)
  \/ StartMonitor
  \/ StopOnce
  \/ BackfillToken
  \/ LoadFinish
  \/ StartResume
  \/ \E s \in {"ws", "orphanConnecting"} : SocketOpen(s)
  \/ LiveToken
  \/ \E s \in Subs : Heartbeat(s)
  \/ \E s \in Subs : Abort(s)
  \/ \E s \in Subs : StreamClosed(s)

SpecMonitor == InitListenerSpec /\ [][NextMonitor]_vars

Connects(s) == subs[s].state = "idle" /\ subs'[s].state = "open"

TokenIds(log) ==
  LET tokens == SelectSeq(log, LAMBDA ev : ev.kind = "token")
  IN [i \in 1..Len(tokens) |-> tokens[i].n]

\* C13: loadingHistory and historyLoaded are each emitted at most once, and a
\* 'migration' handler is registered only after historyLoaded was emitted.
C13_BackfillRunsOnce ==
  /\ emittedLoading <= 1
  /\ emittedLoaded <= 1
  /\ migrationHandlers > 0 => emittedLoaded >= 1

\* C14: a subscriber that connects after the initial load has completed,
\* with a history that is not empty, is sent connected, then one initial
\* event with the most recent records up to the limit, then loaded with the
\* number of records in the history.
C14_SnapshotAfterLoad ==
  [][\A s \in Subs :
       (Connects(s) /\ initialLoadComplete /\ Len(processedTokens) > 0)
         => subs'[s].log =
              <<SseEvent("connected", 0),
                SseEvent("initial", Min(Len(processedTokens), InitialLimit)),
                SseEvent("loaded", Len(processedTokens))>>]_vars

\* C15: a subscriber that connects while a backfill is in progress is sent
\* no initial and no loaded event on connecting, and when historyLoaded is
\* emitted with a history that is not empty, every attached subscriber is
\* sent exactly one loaded and one initial event.
C15_NoSnapshotDuringBackfill ==
  /\ [][\A s \in Subs :
          (Connects(s) /\ loading > 0 /\ ~initialLoadComplete)
            => \A i \in 1..Len(subs'[s].log) :
                 subs'[s].log[i].kind \notin {"initial", "loaded"}]_vars
  /\ [][\A s \in Subs :
          (emittedLoaded' > emittedLoaded /\ subs[s].handlers /\ ~subs[s].broken
             /\ Len(processedTokens) > 0)
            => /\ Len(subs'[s].log) = Len(subs[s].log) + 2
               /\ {subs'[s].log[i].kind : i \in (Len(subs[s].log) + 1)..Len(subs'[s].log)}
                    = {"initial", "loaded"}]_vars

\* C16: the token events written to a subscriber are in the order of their
\* emission on the bus, each emission at most once.
C16_TokensInEmissionOrder ==
  \A s \in Subs :
    LET ids == TokenIds(subs[s].log)
    IN \A i, j \in 1..Len(ids) : i < j => ids[i] < ids[j]

C16_Witness ==
  \E s \in Subs : Len(TokenIds(subs[s].log)) >= 2

\* C17: the abort of a subscriber removes its handlers and its heartbeat
\* and leaves the history, the stats and the other subscribers unchanged,
\* and nothing about an aborted subscriber changes afterwards.
C17_AbortReleasesSubscriber ==
  /\ [][\A s \in Subs :
          (subs[s].state = "open" /\ subs'[s].state = "aborted")
            => /\ ~subs'[s].handlers
               /\ ~subs'[s].heartbeat
               /\ subs'[s].log = subs[s].log
               /\ processedTokens' = processedTokens
               /\ stats' = stats
               /\ \A o \in Subs \ {s} : subs'[o] = subs[o]]_vars
  /\ [][\A s \in Subs : subs[s].state = "aborted" => subs'[s] = subs[s]]_vars

\* An aborted subscriber that had been sent a token, and another subscriber
\* that was sent a token emitted after the abort.
C17_Witness ==
  \E s, o \in Subs :
    /\ subs[s].state = "aborted"
    /\ Len(TokenIds(subs[s].log)) > 0
    /\ subs[o].state = "open"
    /\ \E i \in 1..Len(subs[o].log) :
         /\ subs[o].log[i].kind = "token"
         /\ \A j \in 1..Len(subs[s].log) :
              subs[s].log[j].kind = "token" => subs[s].log[j].n < subs[o].log[i].n

\* C25: for any sequence of start() and stop(), a migration event emitted by
\* the Migration Source is handled by exactly one 'migration' handler of the
\* monitor once the live stream has begun, so it is enriched once and
\* announced once.
C25_EachMigrationEnrichedOnce == migrationHandlers <= 1

\* C18: a subscriber one of whose writes has failed has no handler on the
\* bus and no heartbeat timer.
C18_FailedWriteUnsubscribes ==
  \A s \in Subs : subs[s].writeFailed => ~subs[s].handlers /\ ~subs[s].heartbeat


(***************************************************************************)
(* sol-price.service.ts: the SOL price and its 30 s cache                  *)
(***************************************************************************)

\* The cache still served when its age equals the TTL.
CacheValidInclusive(t) ==
  cachedPrice # NullPrice /\ t - cacheTimestamp <= CACHE_TTL_MS

\* cachedPrice !== null && now - cacheTimestamp < CACHE_TTL_MS
CacheValid(t) ==
  cachedPrice # NullPrice /\ t - cacheTimestamp < CACHE_TTL_MS

PriceFrame == UNCHANGED <<evars, pvars, lvars, bvars, kvars, hvars, gvars>>

\* getSolPrice up to its first await: the cached price when it is valid,
\* otherwise the request to the first source, with `now` read here.
getSolPriceBegin(c) ==
  /\ priceCalls[c].stage = 0
  /\ IF CacheValid(priceClock)
     THEN /\ lastPrice' = [from |-> "cache", price |-> cachedPrice,
                           age |-> priceClock - obtainedAt]
          /\ UNCHANGED priceCalls
     ELSE /\ priceCalls' = [priceCalls EXCEPT ![c] =
                 [stage |-> 1, now |-> priceClock, waited |-> FALSE]]
          /\ UNCHANGED lastPrice
  /\ UNCHANGED <<cachedPrice, cacheTimestamp, priceClock, obtainedAt>>
  /\ PriceFrame

\* The source asked answers with a valid price: the cache is written with
\* the `now` of the call's beginning, and the price is returned.
SourceAnswers(c, p) ==
  /\ priceCalls[c].stage > 0
  /\ cachedPrice' = p
  /\ cacheTimestamp' = priceCalls[c].now
  /\ obtainedAt' = priceClock
  /\ lastPrice' = [from |-> "source", price |-> p, age |-> 0]
  /\ priceCalls' = [priceCalls EXCEPT ![c] = NoPriceCall]
  /\ UNCHANGED priceClock
  /\ PriceFrame

\* The source asked throws, times out or answers without a valid price: the
\* next source is asked, and after the last one null is returned.
SourceFails(c) ==
  /\ priceCalls[c].stage > 0
  /\ IF priceCalls[c].stage < Len(PriceSources)
     THEN /\ priceCalls' = [priceCalls EXCEPT ![c].stage = @ + 1,
                                              ![c].waited = FALSE]
          /\ UNCHANGED lastPrice
     ELSE /\ priceCalls' = [priceCalls EXCEPT ![c] = NoPriceCall]
          /\ lastPrice' = [from |-> "failed", price |-> NullPrice, age |-> 0]
  /\ UNCHANGED <<cachedPrice, cacheTimestamp, priceClock, obtainedAt>>
  /\ PriceFrame

\* getCachedSolPrice: the cached price when it is valid, otherwise null.
getCachedSolPrice ==
  /\ lastPrice' = IF CacheValid(priceClock)
                  THEN [from |-> "cache", price |-> cachedPrice,
                        age |-> priceClock - obtainedAt]
                  ELSE [from |-> "miss", price |-> NullPrice, age |-> 0]
  /\ UNCHANGED <<cachedPrice, cacheTimestamp, priceClock, priceCalls, obtainedAt>>
  /\ PriceFrame

\* The clock advances by one source timeout; a request that has already been
\* outstanding that long has answered or failed before.
PriceTick ==
  /\ priceClock < MaxPriceTicks * SourceTimeout
  /\ \A c \in PriceCallers : ~priceCalls[c].waited
  /\ priceClock' = priceClock + SourceTimeout
  /\ priceCalls' = [c \in PriceCallers |->
       IF priceCalls[c].stage > 0 THEN [priceCalls[c] EXCEPT !.waited = TRUE]
       ELSE priceCalls[c]]
  /\ UNCHANGED <<cachedPrice, cacheTimestamp, obtainedAt, lastPrice>>
  /\ PriceFrame

\* The value getCachedSolPrice returns at this instant.
CachedSolPriceNow == IF CacheValid(priceClock) THEN cachedPrice ELSE NullPrice

\* x || 0 for a price: null becomes 0.
OrZero(price) == IF price = NullPrice THEN 0 ELSE price

\* message.marketCapSol ? message.marketCapSol * (getCachedSolPrice() || 0)
\*                       : undefined
FrameMarketCap(marketCapSol, price) ==
  IF marketCapSol # 0 THEN marketCapSol * OrZero(price) ELSE Undefined

\* fullyDilutedValuation when present, else the conversion of marketCapSol.
BackfillMarketCap(fdv, marketCapSol, price) ==
  IF fdv # 0 THEN fdv ELSE FrameMarketCap(marketCapSol, price)

EventFrame ==
  /\ UNCHANGED <<cachedPrice, cacheTimestamp, priceClock, priceCalls, obtainedAt,
                 lastPrice>>
  /\ UNCHANGED <<evars, pvars, lvars, bvars, kvars, gvars>>

\* handleMessage for a frame with txType 'migration': the MigrationEvent
\* handed to the listeners.
handleMessage(marketCapSol) ==
  /\ lastEvent' = [origin |-> "frame", marketCapSol |-> marketCapSol,
                   price |-> CachedSolPriceNow,
                   marketCap |-> FrameMarketCap(marketCapSol, CachedSolPriceNow)]
  /\ EventFrame

\* loadRecentTokens: the MigrationEvent built for one backfill item.
BackfillEvent(fdv, marketCapSol) ==
  /\ lastEvent' = [origin |-> "backfill", marketCapSol |-> marketCapSol,
                   price |-> CachedSolPriceNow,
                   marketCap |-> BackfillMarketCap(fdv, marketCapSol, CachedSolPriceNow)]
  /\ EventFrame

NextPrice ==
  \/ \E m \in MarketCapSolSamples : handleMessage(m)
  \/ \E v \in FdvSamples, m \in MarketCapSolSamples : BackfillEvent(v, m)
  \/ \E c \in PriceCallers : getSolPriceBegin(c)
  \/ \E c \in PriceCallers, p \in Prices : SourceAnswers(c, p)
  \/ \E c \in PriceCallers : SourceFails(c)
  \/ getCachedSolPrice
  \/ PriceTick

SpecPrice == InitListenerSpec /\ [][NextPrice]_vars

\* C19: a non-null price returned by getSolPrice or getCachedSolPrice was
\* received from its source less than 30 s before; when every source fails,
\* or the cache has expired for getCachedSolPrice, the result is null.
C19_NoStalePrice ==
  /\ lastPrice.price # NullPrice =>
       lastPrice.price \in Prices /\ lastPrice.age < CACHE_TTL_MS
  /\ lastPrice.from \in {"failed", "miss"} => lastPrice.price = NullPrice

\* C21: a migration frame that carries marketCapSol, received while the
\* price oracle returns null, yields a MigrationEvent whose marketCap is
\* undefined.
C21_MarketCapUnsetWithoutPrice ==
  (lastEvent.origin = "frame" /\ lastEvent.marketCapSol # 0
     /\ lastEvent.price = NullPrice) => lastEvent.marketCap = Undefined

\* All sources have just failed while a price older than 30 s sits in the cache.
C19_Witness ==
  /\ lastPrice.from = "failed"
  /\ cachedPrice # NullPrice
  /\ priceClock - cacheTimestamp >= CACHE_TTL_MS


(***************************************************************************)
(* moralis.service.ts: fetchGraduatedTokens and its credentials            *)
(***************************************************************************)

\* What the upstream answers to one request.
Answers == {"ok", "401", "429", "500", "timeout"}

\* The same credential once more.
SameKeyIndex(i) == i

\* The loop's i++ after `continue`.
NextKeyIndex(i) == i + 1

KeysFrame == UNCHANGED <<evars, pvars, lvars, bvars, svars, hvars, gvars>>

\* fetchGraduatedTokens up to its first await: the loop begins with the
\* first credential, and ends at once when none is configured.
fetchGraduatedTokens(f) ==
  /\ fetches[f].state # "waiting"
  /\ fetches' = [fetches EXCEPT ![f] =
       IF 0 < keyCount
       THEN [state |-> "waiting", i |-> 0, tried |-> <<0>>, answer |-> "none",
             result |-> "none"]
       ELSE [state |-> "done", i |-> 0, tried |-> <<>>, answer |-> "none",
             result |-> "empty"]]
  /\ UNCHANGED <<keyCount, currentKeyIndex>>
  /\ KeysFrame

\* The request made with credential i is answered: the tokens are returned
\* and the shared index set; or, on 401/429, the next credential is tried
\* while there is one; or the loop ends and the empty list is returned.
FetchAnswered(f, a) ==
  LET call == fetches[f]
      next == NextKeyIndex(call.i)
  IN /\ call.state = "waiting"
     /\ IF a = "ok"
        THEN /\ currentKeyIndex' = call.i
             /\ fetches' = [fetches EXCEPT ![f].state = "done", ![f].answer = a,
                                           ![f].result = "tokens"]
        ELSE /\ UNCHANGED currentKeyIndex
             /\ fetches' = [fetches EXCEPT ![f] =
                  IF a \in {"401", "429"} /\ next < keyCount
                  THEN [call EXCEPT !.i = next, !.tried = Append(@, next),
                                    !.answer = a]
                  ELSE [call EXCEPT !.state = "done", !.answer = a,
                                    !.result = "empty"]]
     /\ UNCHANGED keyCount
     /\ KeysFrame

\* switchToFallbackKey (exported; the index used by the other requests).
switchToFallbackKey ==
  /\ currentKeyIndex' = IF keyCount > 1 THEN (currentKeyIndex + 1) % keyCount
                        ELSE currentKeyIndex
  /\ UNCHANGED <<keyCount, fetches>>
  /\ KeysFrame

\* Zero to three credentials are configured.
InitKeysSpec ==
  /\ InitEngineIdle /\ InitProcessorIdle /\ InitListener /\ InitBus /\ InitPrice
  /\ InitEvents /\ InitHistory
  /\ keyCount \in 0..MaxKeys
  /\ InitFetches

NextKeys ==
  \/ \E f \in FetchCallers : fetchGraduatedTokens(f)
  \/ \E f \in FetchCallers, a \in Answers : FetchAnswered(f, a)
  \/ switchToFallbackKey

SpecKeys == InitKeysSpec /\ [][NextKeys]_vars

\* C20: within one call the credentials are tried in their order from the
\* first, each at most once; a further credential is tried only after a 401
\* or 429; the call returns the tokens exactly when a request succeeded and
\* otherwise the empty list; and when the last answer was 401/429 every
\* credential has been tried.
C20_CredentialsInOrder ==
  \A f \in FetchCallers :
    LET call == fetches[f]
    IN /\ Len(call.tried) <= keyCount
       /\ \A k \in 1..Len(call.tried) : call.tried[k] = k - 1
       /\ (call.state = "waiting" /\ Len(call.tried) > 1) => call.answer \in {"401", "429"}
       /\ call.state = "done" =>
            /\ call.result \in {"tokens", "empty"}
            /\ call.result = "tokens" <=> call.answer = "ok"
            /\ call.answer \in {"401", "429"} => Len(call.tried) = keyCount

\* Three credentials, each answered 401 or 429: the call ended empty.
C20_Witness ==
  \E f \in FetchCallers :
    /\ keyCount = MaxKeys
    /\ fetches[f].state = "done"
    /\ fetches[f].tried = <<0, 1, 2>>
    /\ fetches[f].answer \in {"401", "429"}
    /\ fetches[f].result = "empty"

====
